---- MODULE Spec2Model ----
(***************************************************************************)
(* Model of the Dropbox file browser sample: the paginated folder listing  *)
(* (listFolder), the delta merge and long-poll loop of the FileBrowser     *)
(* component (startLongPolling, loadCurrentFolder and the two effects),    *)
(* and the upload routine (uploadFile).                                    *)
(*                                                                         *)
(* The module holds several specifications over one set of variables: each *)
(* one drives one part of the program and leaves the other variables at    *)
(* their initial values.                                                   *)
(*   SpecList   listFolder, one remote response per step                   *)
(*   SpecMerge  the setEntries merge of startLongPolling, as a function    *)
(*   SpecUpload uploadFile, one remote call per step                       *)
(*   SpecPoll   the FileBrowser component: effects, long-poll loop, timers *)
(***************************************************************************)
EXTENDS Integers, Sequences, FiniteSets, TLC

(***************************************************************************)
(* Bounds of the model.                                                    *)
(***************************************************************************)
\* listFolder: entries one listing returns over all its pages, and its pages
MaxListed == 3
MaxPages == 3
\* merge: length of a snapshot the merge starts from, records of one batch
MaxSnap == 2
MaxBatch == 3
\* cursor tokens the remote hands out
MaxCursor == 2
\* file browser: chains of startLongPolling alive at once (an invocation
\* awaiting an answer, or the pending timer that will call the next one),
\* loadCurrentFolder invocations awaiting listFolder, pages of one delta
MaxChains == 2
MaxLoads == 1
MaxDeltaPages == 2
\* file browser: entries of one listing
MaxPollListed == 1

(***************************************************************************)
(* Entries.  An entry is the metadata record the remote returns: '.tag',   *)
(* name (last path component, as displayed) and path_lower (the key).      *)
(* Within one listed folder path_lower is the remote's lower-casing of the *)
(* name.  The names:                                                       *)
(*   "a", "A"  the same file before and after a case-only rename: one key  *)
(*   "a~"      "a" followed by a character that collation ignores (such as *)
(*             U+200B): another key, but localeCompare("a", "a~") = 0      *)
(*   "b"       an unrelated name                                           *)
(***************************************************************************)
Names == {"a", "A", "a~", "b"}

\* the remote's path_lower for an entry of the listed folder
PathLower(name) == IF name = "A" THEN "a" ELSE name

\* String.prototype.toLowerCase
ToLowerCase(name) == IF name = "A" THEN "a" ELSE name

\* the collation weight String.prototype.localeCompare compares by
CollationKey(s) == CASE s = "a" -> 1 [] s = "A" -> 2 [] s = "a~" -> 1 [] s = "b" -> 3

\* String.prototype.localeCompare: negative, zero or positive
LocaleCompare(x, y) ==
  IF CollationKey(x) < CollationKey(y) THEN -1
  ELSE IF CollationKey(x) > CollationKey(y) THEN 1 ELSE 0

MkEntry(tag, name) == [tag |-> tag, name |-> name, path_lower |-> PathLower(name)]

\* what a listing with include_deleted: false returns
LiveEntries == {MkEntry(t, n) : t \in {"folder", "file"}, n \in Names}
\* what a delta returns: upserts and tombstones
DeltaEntries == LiveEntries \cup {MkEntry("deleted", n) : n \in {"a", "a~", "b"}}

CompareByName(a, b) == LocaleCompare(ToLowerCase(a.name), ToLowerCase(b.name))

\* the comparator given to Array.prototype.sort, the same in both places
CompareEntries(a, b) ==
  IF a.tag = "folder" /\ b.tag # "folder" THEN -1
  ELSE IF a.tag # "folder" /\ b.tag = "folder" THEN 1
  ELSE LocaleCompare(ToLowerCase(a.name), ToLowerCase(b.name))

\* Array.prototype.sort is stable: an element goes after every element that
\* does not compare greater than it
RECURSIVE InsertSorted(_, _)
InsertSorted(s, e) ==
  IF s = <<>> THEN <<e>>
  ELSE IF CompareEntries(s[Len(s)], e) <= 0 THEN Append(s, e)
  ELSE Append(InsertSorted(SubSeq(s, 1, Len(s) - 1), e), s[Len(s)])

RECURSIVE SortFrom(_, _)
SortFrom(done, rest) ==
  IF rest = <<>> THEN done ELSE SortFrom(InsertSorted(done, Head(rest)), Tail(rest))

SortEntries(s) == SortFrom(<<>>, s)

\* number of occurrences of e in s
Count(s, e) == Cardinality({i \in 1..Len(s) : s[i] = e})

SameBag(s, t) == Len(s) = Len(t) /\ \A i \in 1..Len(s) : Count(s, s[i]) = Count(t, s[i])

IsSorted(s) == \A i \in 1..Len(s), j \in 1..Len(s) : i < j => CompareEntries(s[i], s[j]) <= 0

Keys(s) == {s[i].path_lower : i \in 1..Len(s)}

\* sequences over S of length at most n
SeqsUpTo(S, n) == UNION {[1..k -> S] : k \in 0..n}

\* cursors are opaque tokens; NoCursor is the null a state starts with
Cursors == 1..MaxCursor
NoCursor == 0

\* a variable that holds nothing yet
Nothing == [none |-> TRUE]

VARIABLES
  \* listFolder: position, the local allEntries and response, what it returned
  \* or threw, and (history) the pages the remote served and the request
  \* sent last
  lfPc, allEntries, response, lfResult, pagesServed, lfRequest,
  \* the merge as a function: the snapshot and the batch it is given, how
  \* often the batch was merged, and the snapshot after one and two merges
  prevEntries, batch, merges, mergedOnce, mergedTwice,
  \* uploadFile: position, the arguments (file.size, path), the locals offset
  \* and sessionId, what it returned or threw, and (history) the calls issued
  upPc, fileSize, upPath, offset, sessionId, upResult, upCalls,
  \* FileBrowser: the component is mounted; its state (currentPath and
  \* dropboxClient come from the auth context) and its refs
  mounted, currentPath, dropboxClient, entries, cursor, error,
  isPollingRef, longPollTimeoutRef, backoffTimeoutRef,
  \* the dependencies the effects last ran with
  rendered,
  \* the invocations in flight of startLongPolling and of loadCurrentFolder,
  \* and the timers set with setTimeout
  polls, loads, timers,
  \* runBatch: position, the jobs submitted (the number of chunk operations of
  \* each), each job's position and its chunk operations started and ended,
  \* and the results returned
  bPc, jobs, jobPc, started, ended, results,
  \* the toast of the file browser and (history) the answer of the listFolder
  \* call that loadCurrentFolder awaited last
  toast, listed,
  \* AuthProvider: its state (currentPath and dropboxClient are declared with
  \* the FileBrowser; pathRoot is the path root of that client), the
  \* dependencies its client effect last ran with, the requests of that effect
  \* in flight, (history) whether handleLogout ran with no handleLogin since,
  \* and (history) the request answered by the last step with its status
  accessToken, refreshToken, isTeamAuth, teamMembers, selectedMember, rootNamespaceId, isViewingRoot, currentAccount, loading, pathRoot, authRendered, requests, loggedOut, answered,
  \* LoginPage: it is mounted; the code and error parameters of the URL; its
  \* state isLoading and error and its ref hasExchangedCode; the code of the
  \* getTokensFromCode call in flight; and (history) the calls of
  \* getTokensFromCode and the runs of the callback effect since the mount
  lpMounted, code, oauthError, isLoading, lpError, hasExchangedCode, exchange, exchangeCalls, effectRuns,
  \* the image-flipping server (controller.js): mycache, the sessions, the
  \* time in minutes, the token exchanges and the downloads awaited, and
  \* (history) the states authorize issued and the request handled last with
  \* its answer
  mycache, sessions, now, pending, downloads, issued, handled,
  \* saveToDropbox: position, the path_lower of the session's file, the path
  \* passed to filesUpload, and the answer
  svPc, path_lower, dbx_save_path, svReply,
  \* the remote folders behind the file browser: the records of the changes
  \* made to the root folder since the model began, in their order
  remoteLog

listVars == <<lfPc, allEntries, response, lfResult, pagesServed, lfRequest>>
mergeVars == <<prevEntries, batch, merges, mergedOnce, mergedTwice>>

upVars == <<upPc, fileSize, upPath, offset, sessionId, upResult, upCalls>>

fbVars == <<mounted, currentPath, dropboxClient, entries, cursor, error,
            isPollingRef, longPollTimeoutRef, backoffTimeoutRef,
            rendered, polls, loads, timers>>

batchVars == <<bPc, jobs, jobPc, started, ended, results>>
reportVars == <<toast, listed>>
authVars == <<accessToken, refreshToken, isTeamAuth, teamMembers,
            selectedMember, rootNamespaceId, isViewingRoot, currentAccount,
            loading, pathRoot, authRendered, requests, loggedOut, answered>>
loginVars == <<lpMounted, code, oauthError, isLoading, lpError,
            hasExchangedCode, exchange, exchangeCalls, effectRuns>>
flipVars == <<mycache, sessions, now, pending, downloads, issued, handled>>
saveVars == <<svPc, path_lower, dbx_save_path, svReply>>
remoteVars == <<remoteLog>>

\* the parts outside the file browser's listing, merge, upload and component
extVars == <<batchVars, reportVars, authVars, loginVars, flipVars, saveVars,
            remoteVars>>

vars == <<listVars, mergeVars, upVars, fbVars, extVars>>

\* the frame of each part's actions: the other parts stay as they are
OnlyList == UNCHANGED <<mergeVars, upVars, fbVars, extVars>>
OnlyMerge == UNCHANGED <<listVars, upVars, fbVars, extVars>>
OnlyUpload == UNCHANGED <<listVars, mergeVars, fbVars, extVars>>
OnlyBrowser == UNCHANGED <<listVars, mergeVars, upVars, extVars>>
OnlyBatch == UNCHANGED <<listVars, mergeVars, upVars, fbVars, reportVars,
            authVars, loginVars, flipVars, saveVars, remoteVars>>
OnlyReport == UNCHANGED <<listVars, mergeVars, upVars, batchVars, authVars,
            loginVars, flipVars, saveVars, remoteVars>>
OnlyAuth == UNCHANGED <<listVars, mergeVars, upVars, batchVars, reportVars,
            loginVars, flipVars, saveVars, remoteVars>>
OnlyLogin == UNCHANGED <<listVars, mergeVars, upVars, fbVars, batchVars,
            reportVars, authVars, flipVars, saveVars, remoteVars>>
OnlyFlip == UNCHANGED <<listVars, mergeVars, upVars, fbVars, batchVars,
            reportVars, authVars, loginVars, saveVars, remoteVars>>
OnlySave == UNCHANGED <<listVars, mergeVars, upVars, fbVars, batchVars,
            reportVars, authVars, loginVars, flipVars, remoteVars>>
OnlyRemote == UNCHANGED <<listVars, mergeVars, upVars, batchVars, reportVars,
            authVars, loginVars, flipVars, saveVars>>

\* the parts that do not run
BatchIdle ==
  /\ bPc = "idle"
  /\ jobs = <<>>
  /\ jobPc = <<>>
  /\ started = <<>>
  /\ ended = <<>>
  /\ results = <<>>

ReportIdle ==
  /\ toast = "none"
  /\ listed = Nothing

AuthIdle ==
  /\ accessToken = 0
  /\ refreshToken = 0
  /\ isTeamAuth = FALSE
  /\ teamMembers = {}
  /\ selectedMember = 0
  /\ rootNamespaceId = "null"
  /\ isViewingRoot = FALSE
  /\ currentAccount = 0
  /\ loading = TRUE
  /\ pathRoot = "null"
  /\ authRendered = Nothing
  /\ requests = <<>>
  /\ loggedOut = FALSE
  /\ answered = Nothing

LoginIdle ==
  /\ lpMounted = FALSE
  /\ code = 0
  /\ oauthError = FALSE
  /\ isLoading = FALSE
  /\ lpError = "null"
  /\ hasExchangedCode = FALSE
  /\ exchange = 0
  /\ exchangeCalls = 0
  /\ effectRuns = 0

FlipIdle ==
  /\ mycache = {}
  /\ sessions = <<>>
  /\ now = 0
  /\ pending = {}
  /\ downloads = {}
  /\ issued = {}
  /\ handled = Nothing

SaveIdle ==
  /\ svPc = "idle"
  /\ path_lower = <<>>
  /\ dbx_save_path = <<>>
  /\ svReply = "none"

RemoteIdle ==
  /\ remoteLog = <<>>

ExtIdle == BatchIdle /\ ReportIdle /\ AuthIdle /\ LoginIdle /\ FlipIdle /\
            SaveIdle /\ RemoteIdle

(***************************************************************************)
(* listFolder (dropboxClient.js).  One action per remote response.         *)
(***************************************************************************)
\* the result object of filesListFolder / filesListFolderContinue
Responses(room, last) ==
  {[entries |-> es, has_more |-> hm, cursor |-> c] :
     es \in SeqsUpTo(LiveEntries, room),
     hm \in IF last THEN {FALSE} ELSE BOOLEAN,
     c \in Cursors}

\* the failures of a listing call: the path does not exist, it is malformed,
\* another path error, or anything else (transport, 5xx)
ListErrors == {"not_found", "malformed_path", "not_folder", "other"}

ArrayConcatKeepsLast(a, b) == b
ArrayConcatPrepends(a, b) == b \o a

\* allEntries = allEntries.concat(response.result.entries)
ArrayConcat(a, b) == a \o b

\* filesListFolder({path, include_deleted: false})
FirstRequest == [call |-> "filesListFolder"]

ContinueRequestNoCursor(resp) == [call |-> "filesListFolderContinue", cursor |-> NoCursor]

\* filesListFolderContinue({cursor: response.result.cursor})
ContinueRequest(resp) == [call |-> "filesListFolderContinue", cursor |-> resp.cursor]

\* the request listFolder sends next
NextRequest == IF lfPc = "start" THEN FirstRequest ELSE ContinueRequest(response)

\* the return statement: the sorted entries and the last response's cursor
ListFolderReturn(all, resp) == [entries |-> SortEntries(all), cursor |-> resp.cursor]

\* what follows a response: the while test, then the loop again or the return
ListFolderAfter(all, resp) ==
  /\ allEntries' = ArrayConcat(all, resp.entries)
  /\ response' = resp
  /\ pagesServed' = Append(pagesServed, resp.entries)
  /\ IF resp.has_more
       THEN lfPc' = "continue" /\ lfResult' = lfResult
       ELSE /\ lfPc' = "returned"
            /\ lfResult' = ListFolderReturn(ArrayConcat(all, resp.entries), resp)

Served == Len(allEntries)

\* let allEntries = []; response = await filesListFolder({path, include_deleted: false})
ListFolderFirst ==
  /\ OnlyList
  /\ lfPc = "start"
  /\ lfRequest' = FirstRequest
  /\ \E resp \in Responses(MaxListed, MaxPages = 1) : ListFolderAfter(<<>>, resp)

\* response = await filesListFolderContinue({cursor: response.result.cursor})
ListFolderContinue ==
  /\ OnlyList
  /\ lfPc = "continue"
  /\ lfRequest' = ContinueRequest(response)
  /\ \E resp \in Responses(MaxListed - Served, Len(pagesServed) + 1 >= MaxPages) :
        ListFolderAfter(allEntries, resp)

\* a listFolder that threw the error together with what it had fetched
ListFolderThrowKeepsPartial ==
  /\ OnlyList
  /\ lfPc \in {"start", "continue"}
  /\ lfRequest' = NextRequest
  /\ \E err \in ListErrors : lfResult' = [error |-> err, entries |-> allEntries]
  /\ lfPc' = "threw"
  /\ UNCHANGED <<allEntries, response, pagesServed>>

\* either call rejects: catch (error) { throw error }
ListFolderThrow ==
  /\ OnlyList
  /\ lfPc \in {"start", "continue"}
  /\ lfRequest' = NextRequest
  /\ \E err \in ListErrors : lfResult' = [error |-> err]
  /\ lfPc' = "threw"
  /\ UNCHANGED <<allEntries, response, pagesServed>>

ListInit ==
  /\ lfPc = "start"
  /\ allEntries = <<>>
  /\ response = Nothing
  /\ lfResult = Nothing
  /\ pagesServed = <<>>
  /\ lfRequest = Nothing

ListNext == ListFolderFirst \/ ListFolderContinue \/ ListFolderThrow

(***************************************************************************)
(* The merge of a delta into the snapshot: the updater given to setEntries *)
(* in startLongPolling (FileBrowser).  entriesMap is a JavaScript Map: it  *)
(* keeps its keys in the order of their insertion, set on a present key    *)
(* replaces the value in place, and a key deleted and set again goes last. *)
(* The Map is the sequence of its values, which carry their key.           *)
(***************************************************************************)
KeyIndex(m, k) == {i \in 1..Len(m) : m[i].path_lower = k}

\* entriesMap.set(change.path_lower, change)
MapSet(m, e) ==
  IF KeyIndex(m, e.path_lower) = {}
    THEN Append(m, e)
    ELSE [i \in 1..Len(m) |-> IF m[i].path_lower = e.path_lower THEN e ELSE m[i]]

\* entriesMap.delete(change.path_lower)
MapDelete(m, k) == SelectSeq(m, LAMBDA x : x.path_lower # k)

\* new Map(prevEntries.map(entry => [entry.path_lower, entry]))
RECURSIVE MapFrom(_, _)
MapFrom(m, es) == IF es = <<>> THEN m ELSE MapFrom(MapSet(m, Head(es)), Tail(es))

\* the body of changes.entries.forEach
ApplyChange(m, change) ==
  IF change.tag = "deleted" THEN MapDelete(m, change.path_lower) ELSE MapSet(m, change)

RECURSIVE ApplyChanges(_, _)
ApplyChanges(m, changes) ==
  IF changes = <<>> THEN m ELSE ApplyChanges(ApplyChange(m, Head(changes)), Tail(changes))

\* the updater: prevEntries => sorted Array.from(entriesMap.values())
MergeChanges(prev, changes) == SortEntries(ApplyChanges(MapFrom(<<>>, prev), changes))

\* the snapshots a listing of at most MaxSnap entries produces
ListedSnapshots == {SortEntries(s) : s \in SeqsUpTo(LiveEntries, MaxSnap)}

MergeInit ==
  /\ prevEntries \in ListedSnapshots
  /\ batch \in SeqsUpTo(DeltaEntries, MaxBatch)
  /\ merges = 0
  /\ mergedOnce = <<>>
  /\ mergedTwice = <<>>

MergeIdle ==
  /\ prevEntries = <<>>
  /\ batch = <<>>
  /\ merges = 0
  /\ mergedOnce = <<>>
  /\ mergedTwice = <<>>

\* setEntries(updater) with the batch
MergeFirst ==
  /\ OnlyMerge
  /\ merges = 0
  /\ merges' = 1
  /\ mergedOnce' = MergeChanges(prevEntries, batch)
  /\ UNCHANGED <<prevEntries, batch, mergedTwice>>

\* setEntries(updater) with the same batch once more
MergeAgain ==
  /\ OnlyMerge
  /\ merges = 1
  /\ merges' = 2
  /\ mergedTwice' = MergeChanges(mergedOnce, batch)
  /\ UNCHANGED <<prevEntries, batch, mergedOnce>>

MergeNext == MergeFirst \/ MergeAgain

(***************************************************************************)
(* uploadFile (dropboxClient.js).  One action per remote call; a call is   *)
(* entered in upCalls when it is issued, whether it then succeeds or fails.*)
(***************************************************************************)
MiB == 1024 * 1024

\* const CHUNK_SIZE = 64 * 1024 * 1024
CHUNK_SIZE == 64 * MiB

\* the literal of the size test: 150 * 1024 * 1024
SMALL_FILE_THRESHOLD == 150 * MiB

\* the file sizes tried: around zero, the chunk size and its multiples, and
\* the threshold
FileSizes ==
  {0, 1, CHUNK_SIZE - 1, CHUNK_SIZE, CHUNK_SIZE + 1, 2 * CHUNK_SIZE,
   SMALL_FILE_THRESHOLD - 1, SMALL_FILE_THRESHOLD, SMALL_FILE_THRESHOLD + 1,
   3 * CHUNK_SIZE - 1, 3 * CHUNK_SIZE, 3 * CHUNK_SIZE + 1,
   4 * CHUNK_SIZE, 4 * CHUNK_SIZE + 1, 5 * CHUNK_SIZE}

\* the folders of the model: the root and one folder below it
Paths == {"", "/x"}
FileName == "f"
SessionIds == {"s1", "s2"}

Min(a, b) == IF a < b THEN a ELSE b

SliceUnclamped(size, from, to) == to - from

\* file.slice(from, to).size
SliceSize(size, from, to) ==
  IF Min(to, size) > Min(from, size) THEN Min(to, size) - Min(from, size) ELSE 0

\* const targetPath = `${path}/${file.name}`
TargetPath(path, name) == <<path, "/", name>>

CommitInfoOverwrite(path) ==
  [path |-> TargetPath(path, FileName), mode |-> "overwrite", autorename |-> FALSE]

\* commitInfo, and the arguments of filesUpload
CommitInfo(path) == [path |-> TargetPath(path, FileName), mode |-> "add", autorename |-> TRUE]

ChunkedFrom(size) == size >= SMALL_FILE_THRESHOLD
ChunkedAlways(size) == size >= 0

\* if (file.size > 150 * 1024 * 1024)
Chunked(size) == size > SMALL_FILE_THRESHOLD

IsLastChunkBeyond(off, chunk, size) == off + chunk > size
IsLastChunkShort(off, chunk, size) == chunk < CHUNK_SIZE

\* if (offset + chunk.size >= file.size): this chunk is the last one
IsLastChunk(off, chunk, size) == off + chunk >= size

OffsetKeepsChunk(off, chunk) == chunk
OffsetSkipsByte(off, chunk) == off + chunk + 1

\* offset += chunk.size
NextOffset(off, chunk) == off + chunk

CallOutcomes == {"ok", "fail"}

\* a failed call issued again: the upload stays where it was
UpRetry(call) ==
  /\ UNCHANGED <<upPc, upResult, offset, sessionId>>

\* catch (error) { console.error(...); throw error }: the rejection of the
\* call, named here by the call, is thrown on as it came
UpThrow(call) ==
  /\ upPc' = "threw"
  /\ upResult' = [error |-> call]
  /\ UNCHANGED <<offset, sessionId>>

\* small file: filesUpload({path: targetPath, contents: file, mode: add, autorename})
UploadSmall ==
  /\ OnlyUpload
  /\ upPc = "start"
  /\ ~Chunked(fileSize)
  /\ upCalls' = Append(upCalls,
        [call |-> "upload", bytes |-> fileSize, commit |-> CommitInfo(upPath)])
  /\ \E out \in CallOutcomes :
        IF out = "ok"
          THEN /\ upPc' = "returned"
               /\ upResult' = [entry |-> TargetPath(upPath, FileName), by |-> "upload"]
               /\ UNCHANGED <<offset, sessionId>>
          ELSE UpThrow("upload")
  /\ UNCHANGED <<fileSize, upPath>>

\* firstChunk = file.slice(0, CHUNK_SIZE); filesUploadSessionStart({close: false, ...})
UploadSessionStart ==
  /\ OnlyUpload
  /\ upPc = "start"
  /\ Chunked(fileSize)
  /\ LET firstChunk == SliceSize(fileSize, 0, CHUNK_SIZE) IN
       /\ upCalls' = Append(upCalls, [call |-> "start", bytes |-> firstChunk, close |-> FALSE])
       /\ \E out \in CallOutcomes, sid \in SessionIds :
            IF out = "ok"
              THEN /\ upPc' = "loop"
                   /\ offset' = firstChunk
                   /\ sessionId' = sid
                   /\ upResult' = upResult
              ELSE UpThrow("start")
  /\ UNCHANGED <<fileSize, upPath>>

\* the loop body for an intermediate chunk: filesUploadSessionAppendV2
UploadSessionAppend ==
  /\ OnlyUpload
  /\ upPc = "loop"
  /\ offset < fileSize
  /\ LET chunk == SliceSize(fileSize, offset, offset + CHUNK_SIZE) IN
       /\ ~IsLastChunk(offset, chunk, fileSize)
       /\ upCalls' = Append(upCalls,
             [call |-> "append", bytes |-> chunk, close |-> FALSE,
              cursor |-> [session_id |-> sessionId, offset |-> offset]])
       /\ \E out \in CallOutcomes :
            IF out = "ok"
              THEN /\ offset' = NextOffset(offset, chunk)
                   /\ UNCHANGED <<upPc, sessionId, upResult>>
              ELSE UpThrow("append")
  /\ UNCHANGED <<fileSize, upPath>>

\* the loop body for the last chunk: filesUploadSessionFinish, then return
UploadSessionFinish ==
  /\ OnlyUpload
  /\ upPc = "loop"
  /\ offset < fileSize
  /\ LET chunk == SliceSize(fileSize, offset, offset + CHUNK_SIZE) IN
       /\ IsLastChunk(offset, chunk, fileSize)
       /\ upCalls' = Append(upCalls,
             [call |-> "finish", bytes |-> chunk, commit |-> CommitInfo(upPath),
              cursor |-> [session_id |-> sessionId, offset |-> offset]])
       /\ \E out \in CallOutcomes :
            IF out = "ok"
              THEN /\ upPc' = "returned"
                   /\ upResult' = [entry |-> TargetPath(upPath, FileName), by |-> "finish"]
                   /\ UNCHANGED <<offset, sessionId>>
              ELSE UpThrow("finish")
  /\ UNCHANGED <<fileSize, upPath>>

\* The while test (offset < file.size) cannot fail in the loop: the first
\* chunk is CHUNK_SIZE bytes of a file above the threshold, and the chunk that
\* reaches the end of the file is sent by the finish, which returns.

UploadInit ==
  /\ upPc = "start"
  /\ fileSize \in FileSizes
  /\ upPath \in Paths
  /\ offset = 0
  /\ sessionId = Nothing
  /\ upResult = Nothing
  /\ upCalls = <<>>

UploadIdle ==
  /\ upPc = "start"
  /\ fileSize = 0
  /\ upPath = ""
  /\ offset = 0
  /\ sessionId = Nothing
  /\ upResult = Nothing
  /\ upCalls = <<>>

UploadNext ==
  \/ UploadSmall
  \/ UploadSessionStart
  \/ UploadSessionAppend
  \/ UploadSessionFinish

(***************************************************************************)
(* The FileBrowser component: its two effects, startLongPolling and        *)
(* loadCurrentFolder.  React state is the variable as last set (a set on   *)
(* an unmounted component does nothing); Commit is the render that follows *)
(* a change of an effect's dependencies, with the cleanups and effects it  *)
(* runs.  A function of the component body sees the state of the render    *)
(* that created it: an invocation of startLongPolling carries that cursor  *)
(* with it.  The path it carries is not kept: where it is read, in the     *)
(* loadCurrentFolder of the inner catch, it is any of the paths.           *)
(* Every await is the end of a step: the awaited call is in flight until   *)
(* the action of its answer runs.                                          *)
(*                                                                         *)
(* Time: the answers of the remote take any time, so the model keeps the   *)
(* order of events and not the clock.  The pending timers are kept in the  *)
(* order they were set, each with its delay in seconds: a timer runs       *)
(* before every timer set after it with the same or a longer delay, and    *)
(* in any order with the others.                                           *)
(***************************************************************************)

\* what the remote lists and reports for the folders browsed
PollLive == {MkEntry("file", "a")}
PollDelta == {MkEntry("file", "A"), MkEntry("deleted", "a")}

\* the delay of the re-poll timer: setTimeout(..., 1000)
REPOLL_DELAY == 1
\* the delay of the retry timer: setTimeout(..., 5000)
ERROR_DELAY == 5
\* result.backoff of a long-poll answer, in seconds; 0 is an answer without
Backoffs == {0, 2}

\* the results listFolder hands to loadCurrentFolder
ListResults ==
  {ListFolderReturn(all, [cursor |-> c]) : all \in SeqsUpTo(PollLive, MaxPollListed), c \in Cursors}

\* the pages of a delta: the responses of filesListFolderContinue in getChanges
DeltaPages(last) ==
  {[entries |-> es, has_more |-> hm, cursor |-> c] :
     es \in [1..1 -> PollDelta],
     hm \in IF last THEN {FALSE} ELSE BOOLEAN,
     c \in Cursors}

\* an invocation of startLongPolling: where it waits ("longpoll", "changes",
\* "reload"), its cursor, the backoff of its long-poll answer, and the
\* allChanges of its getChanges, one record a page
FreePoll == [pc |-> "free", cur |-> NoCursor, backoff |-> 0, all |-> <<>>]
FreeLoad == [pc |-> "free", path |-> ""]
PollSlots == 1..MaxChains
LoadSlots == 1..MaxLoads

FreePollSlot == CHOOSE i \in PollSlots :
                  polls[i].pc = "free" /\ \A j \in PollSlots : polls[j].pc = "free" => i <= j
FreeLoadSlot == CHOOSE i \in LoadSlots :
                  loads[i].pc = "free" /\ \A j \in LoadSlots : loads[j].pc = "free" => i <= j
HasFreePoll == \E i \in PollSlots : polls[i].pc = "free"
HasFreeLoad == \E i \in LoadSlots : loads[i].pc = "free"
HasFreeTimer(tms) == Len(tms) < MaxChains

\* the chains alive: invocations in flight and pending timers
InFlight(ps) == {i \in PollSlots : ps[i].pc # "free"}
Chains(ps, tms) == Cardinality(InFlight(ps)) + Len(tms)

\* the id setTimeout returns: one that no pending timer has
TimerIds(tms) == {tms[i].id : i \in 1..Len(tms)}
NewTimerId(tms) == CHOOSE n \in 1..MaxChains :
                     n \notin TimerIds(tms) /\ \A m \in 1..(n - 1) : m \in TimerIds(tms)

\* clearTimeout(id); a ref that names a timer no longer pending is the same
\* as an empty one, so it is emptied when its timer goes
ClearTimeouts(tms, ids) == SelectSeq(tms, LAMBDA tm : tm.id \notin ids)
RefAfter(ref, gone) == IF ref \in gone THEN 0 ELSE ref

\* setTimeout(() => startLongPolling(), delay * 1000) of the invocation clo
\* and (history) the call that set it: "repoll", "backoff" or "retry"
SetTimeout(tms, clo, delay, site) ==
  Append(tms, [id |-> NewTimerId(tms), delay |-> delay, cur |-> clo.cur, site |-> site])

\* currentPath.split('/').slice(0, -1).join('/')
ParentPath(path) == ""

\* a setter of React state
SetState(old, new) == IF mounted THEN new ELSE old

\* the guard of startLongPolling: if (!cursor || isPollingRef.current) return
PollGuard(cur, polling) == cur # NoCursor /\ ~polling

\* the condition of the second effect, dropboxClient being set
EffectGuard(cur, polling) == cur # NoCursor /\ ~polling

\* startLongPolling up to its first await: the slot of the new invocation
NewPoll(cur) == [FreePoll EXCEPT !.pc = "longpoll", !.cur = cur]

\* the return statement of getChanges: allChanges and the last response's cursor
GetChangesReturn(all, resp) == [entries |-> all, cursor |-> resp.cursor]

(***************************************************************************)
(* The end of startLongPolling's try block: the two timers.                *)
(***************************************************************************)
\* isPollingRef.current after "if (result.backoff) { isPollingRef.current = false"
FlagAfterCycle(polling, backoff) == IF backoff > 0 THEN FALSE ELSE polling

\* if (result.backoff) {...} else {...}
AfterCycle(clo) ==
  /\ isPollingRef' = FlagAfterCycle(isPollingRef, clo.backoff)
  /\ IF clo.backoff > 0
       THEN /\ timers' = SetTimeout(timers, clo, clo.backoff, "backoff")
            /\ backoffTimeoutRef' = NewTimerId(timers)
            /\ longPollTimeoutRef' = longPollTimeoutRef
       ELSE /\ timers' = SetTimeout(timers, clo, REPOLL_DELAY, "repoll")
            /\ longPollTimeoutRef' = NewTimerId(timers)
            /\ backoffTimeoutRef' = backoffTimeoutRef

(***************************************************************************)
(* loadCurrentFolder after its await: try, catch and finally.              *)
(***************************************************************************)
LoadOutcomes ==
  {[ok |-> TRUE, result |-> r, err |-> "none"] : r \in ListResults}
    \cup {[ok |-> FALSE, result |-> Nothing, err |-> e] : e \in ListErrors}

AfterListing(path, out) ==
  IF out.ok
    THEN \* setEntries(result.entries); setCursor(result.cursor)
         /\ entries' = SetState(entries, out.result.entries)
         /\ cursor' = SetState(cursor, out.result.cursor)
         /\ UNCHANGED <<currentPath, error>>
    ELSE /\ UNCHANGED <<entries, cursor>>
         /\ IF out.err = "not_found"
              THEN \* showToast; handleNavigateUp()
                   /\ currentPath' = IF path = "" THEN currentPath
                                     ELSE SetState(currentPath, ParentPath(path))
                   /\ error' = error
              ELSE IF out.err = "malformed_path"
                THEN \* showToast; setCurrentPath('')
                     /\ currentPath' = SetState(currentPath, "")
                     /\ error' = error
                ELSE IF out.err = "not_folder"
                  THEN \* a path error of another tag: neither branch runs
                       UNCHANGED <<currentPath, error>>
                  ELSE \* setError('Failed to load folder contents...'); showToast
                       /\ error' = SetState(error, TRUE)
                       /\ currentPath' = currentPath

(***************************************************************************)
(* The render after a change of the dependencies, its cleanups and effects.*)
(***************************************************************************)
Deps == [path |-> currentPath, client |-> dropboxClient, cursor |-> cursor]

Commit ==
  /\ OnlyBrowser
  /\ mounted
  /\ rendered # Deps
  /\ LET first == rendered = Nothing
         eff1 == first \/ rendered.path # currentPath \/ rendered.client # dropboxClient
         eff2 == first \/ rendered.cursor # cursor \/ rendered.client # dropboxClient
         \* cleanup of the first effect: clearTimeout of both refs
         gone == IF eff1 /\ ~first
                   THEN {longPollTimeoutRef, backoffTimeoutRef} \ {0} ELSE {}
         tms == ClearTimeouts(timers, gone)
         \* cleanup of the second effect: isPollingRef.current = false
         polling == IF eff2 /\ ~first THEN FALSE ELSE isPollingRef
         \* the effects
         load == eff1
         poll == eff2 /\ EffectGuard(cursor, polling) /\ PollGuard(cursor, polling)
     IN /\ load => HasFreeLoad
        /\ poll => HasFreePoll /\ Chains(polls, tms) < MaxChains
        /\ timers' = tms
        /\ longPollTimeoutRef' = RefAfter(longPollTimeoutRef, gone)
        /\ backoffTimeoutRef' = RefAfter(backoffTimeoutRef, gone)
        /\ loads' = IF load
                      THEN [loads EXCEPT ![FreeLoadSlot] = [pc |-> "listing", path |-> currentPath]]
                      ELSE loads
        /\ error' = IF load THEN FALSE ELSE error
        /\ polls' = IF poll
                      THEN [polls EXCEPT ![FreePollSlot] = NewPoll(cursor)]
                      ELSE polls
        /\ isPollingRef' = IF poll THEN TRUE ELSE polling
  /\ rendered' = Deps
  /\ UNCHANGED <<mounted, currentPath, dropboxClient, entries, cursor>>

\* the component is removed: both cleanups run
Unmount ==
  /\ OnlyBrowser
  /\ mounted
  /\ rendered # Nothing
  /\ mounted' = FALSE
  /\ LET gone == {longPollTimeoutRef, backoffTimeoutRef} \ {0} IN
       /\ timers' = ClearTimeouts(timers, gone)
       /\ longPollTimeoutRef' = RefAfter(longPollTimeoutRef, gone)
       /\ backoffTimeoutRef' = RefAfter(backoffTimeoutRef, gone)
  /\ isPollingRef' = FALSE
  /\ UNCHANGED <<currentPath, dropboxClient, entries, cursor, error, rendered,
                 polls, loads>>

\* handleFolderClick, handleBreadcrumbClick, the root button: setCurrentPath
Navigate ==
  /\ OnlyBrowser
  /\ mounted
  /\ rendered # Nothing
  /\ \E p \in Paths \ {currentPath} : currentPath' = p
  /\ UNCHANGED <<mounted, dropboxClient, entries, cursor, error, isPollingRef,
                 longPollTimeoutRef, backoffTimeoutRef, rendered, polls, loads,
                 timers>>

\* loadCurrentFolder called by a handler (after an upload, the Retry button,
\* a download that found no file): up to the await of listFolder
Reload ==
  /\ OnlyBrowser
  /\ mounted
  /\ rendered # Nothing
  /\ HasFreeLoad
  /\ loads' = [loads EXCEPT ![FreeLoadSlot] = [pc |-> "listing", path |-> rendered.path]]
  /\ error' = FALSE
  /\ UNCHANGED <<mounted, currentPath, dropboxClient, entries, cursor, isPollingRef,
                 longPollTimeoutRef, backoffTimeoutRef, rendered, polls, timers>>

\* listFolder answers a loadCurrentFolder that an effect or a handler called
LoadAnswered ==
  /\ OnlyBrowser
  /\ \E l \in LoadSlots :
       /\ loads[l].pc = "listing"
       /\ \E out \in LoadOutcomes :
            /\ AfterListing(loads[l].path, out)
       /\ loads' = [loads EXCEPT ![l] = FreeLoad]
  /\ UNCHANGED <<mounted, dropboxClient, isPollingRef, longPollTimeoutRef,
                 backoffTimeoutRef, rendered, polls, timers>>

(***************************************************************************)
(* startLongPolling after its awaits.                                      *)
(***************************************************************************)
\* the answer of startLongPoll(cursor) says changes: false
LongPollNoChanges ==
  /\ OnlyBrowser
  /\ \E t \in PollSlots, b \in Backoffs :
       /\ polls[t].pc = "longpoll"
       /\ HasFreeTimer(timers)
       /\ AfterCycle([polls[t] EXCEPT !.backoff = b])
       /\ polls' = [polls EXCEPT ![t] = FreePoll]
  /\ UNCHANGED <<mounted, currentPath, dropboxClient, entries, cursor, error,
                 rendered, loads>>

\* the answer says changes: true; getChanges(dropboxClient, cursor) is called
\* and awaits its first filesListFolderContinue
LongPollChanges ==
  /\ OnlyBrowser
  /\ \E t \in PollSlots, b \in Backoffs :
       /\ polls[t].pc = "longpoll"
       /\ polls' = [polls EXCEPT ![t].pc = "changes", ![t].backoff = b]
  /\ UNCHANGED <<mounted, currentPath, dropboxClient, entries, cursor, error,
                 isPollingRef, longPollTimeoutRef, backoffTimeoutRef, rendered,
                 loads, timers>>

\* startLongPoll rejects: the outer catch
LongPollFails ==
  /\ OnlyBrowser
  /\ \E t \in PollSlots :
       /\ polls[t].pc = "longpoll"
       /\ HasFreeTimer(timers)
       /\ isPollingRef' = FALSE
       /\ timers' = SetTimeout(timers, polls[t], ERROR_DELAY, "retry")
       /\ longPollTimeoutRef' = NewTimerId(timers)
       /\ polls' = [polls EXCEPT ![t] = FreePoll]
  /\ UNCHANGED <<mounted, currentPath, dropboxClient, entries, cursor, error,
                 backoffTimeoutRef, rendered, loads>>

\* a getChanges that stored the cursor of every page it fetched
ChangesPageStoresCursor ==
  /\ OnlyBrowser
  /\ \E t \in PollSlots :
       /\ polls[t].pc = "changes"
       /\ \E resp \in DeltaPages(Len(polls[t].all) + 1 >= MaxDeltaPages) :
            /\ resp.has_more
            /\ polls' = [polls EXCEPT ![t].all = ArrayConcat(@, resp.entries)]
            /\ cursor' = SetState(cursor, resp.cursor)
  /\ UNCHANGED <<mounted, currentPath, dropboxClient, entries, error,
                 isPollingRef, longPollTimeoutRef, backoffTimeoutRef, rendered,
                 loads, timers>>

\* getChanges: a page with has_more set; the next continue call is awaited
ChangesPage ==
  /\ OnlyBrowser
  /\ \E t \in PollSlots :
       /\ polls[t].pc = "changes"
       /\ \E resp \in DeltaPages(Len(polls[t].all) + 1 >= MaxDeltaPages) :
            /\ resp.has_more
            /\ polls' = [polls EXCEPT ![t].all = ArrayConcat(@, resp.entries)]
  /\ UNCHANGED <<mounted, currentPath, dropboxClient, entries, cursor, error,
                 isPollingRef, longPollTimeoutRef, backoffTimeoutRef, rendered,
                 loads, timers>>

\* getChanges: the last page; getChanges returns, the delta is merged, the
\* cursor is set, and the cycle ends with its timer
ChangesDone ==
  /\ OnlyBrowser
  /\ \E t \in PollSlots :
       /\ polls[t].pc = "changes"
       /\ HasFreeTimer(timers)
       /\ \E resp \in DeltaPages(Len(polls[t].all) + 1 >= MaxDeltaPages) :
            /\ ~resp.has_more
            /\ LET changes == GetChangesReturn(ArrayConcat(polls[t].all, resp.entries), resp)
               IN /\ entries' = SetState(entries, MergeChanges(entries, changes.entries))
                  /\ cursor' = SetState(cursor, changes.cursor)
       /\ AfterCycle(polls[t])
       /\ polls' = [polls EXCEPT ![t] = FreePoll]
  /\ UNCHANGED <<mounted, currentPath, dropboxClient, error, rendered, loads>>

\* an inner catch that showed the error and ended the cycle with no listing
ChangesFailSurfaces ==
  /\ OnlyBrowser
  /\ \E t \in PollSlots :
       /\ polls[t].pc = "changes"
       /\ HasFreeTimer(timers)
       /\ error' = SetState(error, TRUE)
       /\ AfterCycle(polls[t])
       /\ polls' = [polls EXCEPT ![t] = FreePoll]
  /\ UNCHANGED <<mounted, currentPath, dropboxClient, entries, cursor, rendered,
                 loads>>

\* a continue call of getChanges rejects: getChanges throws, the inner catch
\* logs and calls loadCurrentFolder, which awaits listFolder
ChangesFail ==
  /\ OnlyBrowser
  /\ \E t \in PollSlots :
       /\ polls[t].pc = "changes"
       /\ polls' = [polls EXCEPT ![t].pc = "reload", ![t].all = <<>>]
       /\ error' = SetState(error, FALSE)
  /\ UNCHANGED <<mounted, currentPath, dropboxClient, entries, cursor,
                 isPollingRef, longPollTimeoutRef, backoffTimeoutRef, rendered,
                 loads, timers>>

\* listFolder answers the loadCurrentFolder of the inner catch; the cycle
\* ends with its timer
FallbackAnswered ==
  /\ OnlyBrowser
  /\ \E t \in PollSlots :
       /\ polls[t].pc = "reload"
       /\ HasFreeTimer(timers)
       \* the path of the invocation is read by handleNavigateUp alone
       /\ \E out \in LoadOutcomes, path \in Paths :
            /\ out.err # "not_found" => path = ""
            /\ AfterListing(path, out)
            /\ AfterCycle(polls[t])
       /\ polls' = [polls EXCEPT ![t] = FreePoll]
  /\ UNCHANGED <<mounted, dropboxClient, rendered, loads>>

\* timer i may be the next one to run
MayRun(tms, i) == \A j \in 1..(i - 1) : tms[j].delay > tms[i].delay

\* a timer is due: its callback calls startLongPolling of the render that
\* set it
TimerFires ==
  /\ OnlyBrowser
  /\ \E i \in 1..Len(timers) :
       /\ MayRun(timers, i)
       /\ LET start == PollGuard(timers[i].cur, isPollingRef) IN
            /\ start => HasFreePoll
            /\ polls' = IF start
                          THEN [polls EXCEPT ![FreePollSlot] =
                                  NewPoll(timers[i].cur)]
                          ELSE polls
            /\ isPollingRef' = IF start THEN TRUE ELSE isPollingRef
       /\ timers' = ClearTimeouts(timers, {timers[i].id})
       /\ longPollTimeoutRef' = RefAfter(longPollTimeoutRef, {timers[i].id})
       /\ backoffTimeoutRef' = RefAfter(backoffTimeoutRef, {timers[i].id})
  /\ UNCHANGED <<mounted, currentPath, dropboxClient, entries, cursor, error,
                 rendered, loads>>

BrowserInit ==
  /\ mounted = TRUE
  /\ currentPath \in Paths
  /\ dropboxClient = 1
  /\ entries = <<>>
  /\ cursor = NoCursor
  /\ error = FALSE
  /\ isPollingRef = FALSE
  /\ longPollTimeoutRef = 0
  /\ backoffTimeoutRef = 0
  /\ rendered = Nothing
  /\ polls = [i \in PollSlots |-> FreePoll]
  /\ loads = [i \in LoadSlots |-> FreeLoad]
  /\ timers = <<>>

BrowserIdle ==
  /\ mounted = FALSE
  /\ currentPath = ""
  /\ dropboxClient = 1
  /\ entries = <<>>
  /\ cursor = NoCursor
  /\ error = FALSE
  /\ isPollingRef = FALSE
  /\ longPollTimeoutRef = 0
  /\ backoffTimeoutRef = 0
  /\ rendered = Nothing
  /\ polls = [i \in PollSlots |-> FreePoll]
  /\ loads = [i \in LoadSlots |-> FreeLoad]
  /\ timers = <<>>

BrowserNext ==
  \/ Commit
  \/ Unmount
  \/ Navigate
  \/ Reload
  \/ LoadAnswered
  \/ LongPollNoChanges
  \/ LongPollChanges
  \/ LongPollFails
  \/ ChangesPage
  \/ ChangesDone
  \/ ChangesFail
  \/ FallbackAnswered
  \/ TimerFires

(***************************************************************************)
(* The snapshot by itself.  Every write of entries is one update of React  *)
(* state, either the result of a listing or the merge of a delta, so the   *)
(* values the snapshot takes are those of any sequence of the two.         *)
(***************************************************************************)
\* loadCurrentFolder: setEntries(result.entries); setCursor(result.cursor)
SnapshotListed ==
  /\ OnlyBrowser
  /\ \E all \in SeqsUpTo(LiveEntries, MaxSnap), c \in Cursors :
       LET result == ListFolderReturn(all, [cursor |-> c])
       IN /\ entries' = SetState(entries, result.entries)
          /\ cursor' = SetState(cursor, result.cursor)
  /\ UNCHANGED <<mounted, currentPath, dropboxClient, error, isPollingRef,
                 longPollTimeoutRef, backoffTimeoutRef, rendered, polls, loads,
                 timers>>

\* startLongPolling: setEntries(prevEntries => ...); setCursor(changes.cursor)
SnapshotMerged ==
  /\ OnlyBrowser
  /\ cursor # NoCursor
  /\ \E all \in SeqsUpTo(DeltaEntries, MaxBatch), c \in Cursors :
       LET changes == GetChangesReturn(all, [cursor |-> c])
       IN /\ entries' = SetState(entries, MergeChanges(entries, changes.entries))
          /\ cursor' = SetState(cursor, changes.cursor)
  /\ UNCHANGED <<mounted, currentPath, dropboxClient, error, isPollingRef,
                 longPollTimeoutRef, backoffTimeoutRef, rendered, polls, loads,
                 timers>>

SnapshotNext == SnapshotListed \/ SnapshotMerged

(***************************************************************************)
(* loadCurrentFolder with what it shows: the error state and the toast.    *)
(***************************************************************************)
\* the messages loadCurrentFolder passes to showToast
Toasts == {"not found", "invalid path", "failed to load"}

\* the toast after the catch block of loadCurrentFolder
ToastAfter(old, out) ==
  IF out.ok THEN old
  ELSE IF out.err = "not_found" THEN SetState(old, "not found")
  ELSE IF out.err = "malformed_path" THEN SetState(old, "invalid path")
  ELSE IF out.err = "not_folder" THEN old
  ELSE SetState(old, "failed to load")

\* loadCurrentFolder up to its await: setError(null), then listFolder is
\* called with the path of the render
LoadCalled ==
  /\ OnlyReport
  /\ mounted
  /\ HasFreeLoad
  /\ loads' = [loads EXCEPT ![FreeLoadSlot] = [pc |-> "listing", path |-> currentPath]]
  /\ error' = SetState(error, FALSE)
  /\ UNCHANGED <<mounted, currentPath, dropboxClient, entries, cursor, isPollingRef,
                 longPollTimeoutRef, backoffTimeoutRef, rendered, polls, timers>>
  /\ UNCHANGED reportVars

\* listFolder answers: the try block or the catch block runs
LoadReports ==
  /\ OnlyReport
  /\ \E l \in LoadSlots :
       /\ loads[l].pc = "listing"
       /\ \E out \in LoadOutcomes :
            /\ AfterListing(loads[l].path, out)
            /\ toast' = ToastAfter(toast, out)
            /\ listed' = out
       /\ loads' = [loads EXCEPT ![l] = FreeLoad]
  /\ UNCHANGED <<mounted, dropboxClient, isPollingRef, longPollTimeoutRef,
                 backoffTimeoutRef, rendered, polls, timers>>

\* the timer of the Toast component runs: onClose is hideToast
HideToast ==
  /\ OnlyReport
  /\ toast # "none"
  /\ toast' = "none"
  /\ UNCHANGED fbVars
  /\ UNCHANGED listed

ReportNext ==
  \/ LoadCalled
  \/ LoadReports
  \/ HideToast

(***************************************************************************)
(* AuthProvider (AuthContext.jsx).  null is 0, "null" for rootNamespaceId; *)
(* a client is named by the access token it was created with.  A handler   *)
(* sets its states in one update; the client effect runs with the render   *)
(* that follows a change of its dependencies.                              *)
(***************************************************************************)
MaxRequests == 2

Tokens == {1}
Members == {1, 2}
NamespaceIds == {"ns1"}

\* the FileBrowser's own state, which the provider does not touch
AuthFrame ==
  /\ OnlyAuth
  /\ UNCHANGED <<mounted, entries, cursor, error, isPollingRef, longPollTimeoutRef,
                 backoffTimeoutRef, rendered, polls, loads, timers>>

\* isAuthenticated: !!accessToken
isAuthenticated == accessToken # 0

\* the dependencies of the client effect
AuthDeps == [accessToken |-> accessToken, isTeamAuth |-> isTeamAuth,
             selectedMember |-> selectedMember, isViewingRoot |-> isViewingRoot]

\* the request the client effect starts, with the values its callbacks close
\* over; none when there is no access token
EffectRequests ==
  IF accessToken = 0 THEN <<>>
  ELSE <<[kind |-> IF isTeamAuth /\ selectedMember # 0 THEN "member"
                   ELSE IF isTeamAuth THEN "team" ELSE "user",
          tok |-> accessToken, member |-> selectedMember,
          ns |-> rootNamespaceId, root |-> isViewingRoot]>>

Remove(seq, i) == [k \in 1..(Len(seq) - 1) |-> IF k < i THEN seq[k] ELSE seq[k + 1]]

\* the statuses a request of the effect is answered with: 200 resolves it,
\* the others reject it
Statuses == {200, 401, 403, 500}

IsAnyClientError(status) == status \in {401, 403}

\* err?.status === 401
IsUnauthorized(status) == status = 401

\* correctPathRoot: the root namespace when the root is viewed, else null
CorrectPathRoot(viewingRoot, nsId) == IF viewingRoot /\ nsId # "" THEN nsId ELSE "null"

LoadingAfterEffectKept(tok, l) == l

\* the loading flag after the client effect ran: setLoading(false) when
\* there is no access token
LoadingAfterEffect(tok, l) == IF tok = 0 THEN FALSE ELSE l

\* members.length > 0 && !selectedMember
PicksMember(members, member) == members # {} /\ member = 0

\* the states handleLogout sets
LoggedOutState ==
  /\ accessToken' = 0
  /\ refreshToken' = 0
  /\ dropboxClient' = 0
  /\ pathRoot' = "null"
  /\ isTeamAuth' = FALSE
  /\ teamMembers' = {}
  /\ selectedMember' = 0
  /\ rootNamespaceId' = "null"
  /\ isViewingRoot' = FALSE
  /\ currentPath' = ""
  /\ currentAccount' = 0

\* handleLogout
handleLogout ==
  /\ AuthFrame
  /\ isAuthenticated
  /\ LoggedOutState
  /\ loggedOut' = TRUE
  /\ answered' = Nothing
  /\ UNCHANGED <<loading, authRendered, requests>>

\* handleLogin(authData): handleLogout(), then the setters of the new tokens
handleLogin ==
  /\ AuthFrame
  /\ ~isAuthenticated
  /\ \E tok \in Tokens, refresh \in {0} \cup Tokens, team \in BOOLEAN :
       /\ accessToken' = tok
       /\ refreshToken' = refresh
       /\ isTeamAuth' = team
  /\ dropboxClient' = 0
  /\ pathRoot' = "null"
  /\ teamMembers' = {}
  /\ selectedMember' = 0
  /\ rootNamespaceId' = "null"
  /\ isViewingRoot' = FALSE
  /\ currentPath' = ""
  /\ currentAccount' = 0
  /\ loggedOut' = FALSE
  /\ answered' = Nothing
  /\ UNCHANGED <<loading, authRendered, requests>>

\* selectTeamMember(member)
selectTeamMember ==
  /\ AuthFrame
  /\ isTeamAuth /\ accessToken # 0
  /\ \E member \in teamMembers : selectedMember' = member
  /\ currentPath' = ""
  /\ answered' = Nothing
  /\ UNCHANGED <<accessToken, refreshToken, dropboxClient, pathRoot, isTeamAuth,
                 teamMembers, rootNamespaceId, isViewingRoot, currentAccount,
                 loading, authRendered, requests, loggedOut>>

\* toggleNamespaceView, offered by the FileBrowser of an authenticated user
toggleNamespaceView ==
  /\ AuthFrame
  /\ isAuthenticated
  /\ isViewingRoot' = ~isViewingRoot
  /\ currentPath' = ""
  /\ answered' = Nothing
  /\ UNCHANGED <<accessToken, refreshToken, dropboxClient, pathRoot, isTeamAuth,
                 teamMembers, selectedMember, rootNamespaceId, currentAccount,
                 loading, authRendered, requests, loggedOut>>

\* setCurrentPath, called by the FileBrowser of an authenticated user
AuthNavigate ==
  /\ AuthFrame
  /\ isAuthenticated
  /\ \E p \in Paths \ {currentPath} : currentPath' = p
  /\ answered' = Nothing
  /\ UNCHANGED <<accessToken, refreshToken, dropboxClient, pathRoot, isTeamAuth,
                 teamMembers, selectedMember, rootNamespaceId, isViewingRoot,
                 currentAccount, loading, authRendered, requests, loggedOut>>

\* the render after a change of the effect's dependencies: the effect runs
\* and starts its request
AuthCommit ==
  /\ AuthFrame
  /\ authRendered # AuthDeps
  /\ Len(requests) + Len(EffectRequests) <= MaxRequests
  /\ authRendered' = AuthDeps
  /\ requests' = requests \o EffectRequests
  /\ loading' = LoadingAfterEffect(accessToken, loading)
  /\ answered' = Nothing
  /\ UNCHANGED <<accessToken, refreshToken, dropboxClient, pathRoot, isTeamAuth,
                 teamMembers, selectedMember, rootNamespaceId, isViewingRoot,
                 currentAccount, currentPath, loggedOut>>

\* getCurrentAccount resolves: the .then callback of the member branch or of
\* the individual branch, and the .finally callback
AccountResolved ==
  /\ AuthFrame
  /\ \E i \in 1..Len(requests), nsId \in NamespaceIds, single \in BOOLEAN :
       LET r == requests[i]
       IN /\ r.kind \in {"member", "user"}
          /\ currentAccount' = 1
          /\ IF r.kind = "member"
               THEN /\ rootNamespaceId' = IF r.ns # nsId THEN nsId ELSE rootNamespaceId
                    /\ isViewingRoot' = isViewingRoot
               ELSE /\ rootNamespaceId' = nsId
                    /\ isViewingRoot' = IF single THEN FALSE ELSE isViewingRoot
          /\ dropboxClient' = r.tok
          /\ pathRoot' = CorrectPathRoot(r.root, nsId)
          /\ requests' = Remove(requests, i)
          /\ answered' = [req |-> r, status |-> 200]
  /\ loading' = FALSE
  /\ UNCHANGED <<accessToken, refreshToken, isTeamAuth, teamMembers, selectedMember,
                 currentPath, authRendered, loggedOut>>

\* getCurrentAccount rejects: the .catch callback and the .finally callback
AccountRejected ==
  /\ AuthFrame
  /\ \E i \in 1..Len(requests), status \in Statuses \ {200} :
       LET r == requests[i]
       IN /\ r.kind \in {"member", "user"}
          /\ IF IsUnauthorized(status)
               THEN \* handleLogout()
                    /\ LoggedOutState
                    /\ loggedOut' = TRUE
               ELSE /\ rootNamespaceId' = ""
                    /\ dropboxClient' = r.tok
                    /\ pathRoot' = "null"
                    /\ UNCHANGED <<accessToken, refreshToken, isTeamAuth, teamMembers,
                                   selectedMember, isViewingRoot, currentPath,
                                   currentAccount, loggedOut>>
          /\ requests' = Remove(requests, i)
          /\ answered' = [req |-> r, status |-> status]
  /\ loading' = FALSE
  /\ UNCHANGED authRendered

\* getTeamMembers and getAdminMemberId resolve
TeamResolved ==
  /\ AuthFrame
  /\ \E i \in 1..Len(requests), members \in {{}, Members}, admin \in {0} \cup Members :
       LET r == requests[i]
       IN /\ r.kind = "team"
          /\ teamMembers' = members
          /\ selectedMember' =
               IF PicksMember(members, r.member)
                 THEN IF admin \in members THEN admin ELSE 1
                 ELSE selectedMember
          /\ loading' = IF PicksMember(members, r.member) THEN loading ELSE FALSE
          /\ requests' = Remove(requests, i)
          /\ answered' = [req |-> r, status |-> 200]
  /\ UNCHANGED <<accessToken, refreshToken, dropboxClient, pathRoot, isTeamAuth,
                 rootNamespaceId, isViewingRoot, currentAccount, currentPath,
                 authRendered, loggedOut>>

\* getTeamMembers or getAdminMemberId rejects
TeamRejected ==
  /\ AuthFrame
  /\ \E i \in 1..Len(requests), status \in Statuses \ {200} :
       /\ requests[i].kind = "team"
       /\ requests' = Remove(requests, i)
       /\ answered' = [req |-> requests[i], status |-> status]
  /\ loading' = FALSE
  /\ UNCHANGED <<accessToken, refreshToken, dropboxClient, pathRoot, isTeamAuth,
                 teamMembers, selectedMember, rootNamespaceId, isViewingRoot,
                 currentAccount, currentPath, authRendered, loggedOut>>

\* the provider after construction with an empty localStorage
AuthInit ==
  /\ AuthIdle
  /\ currentPath = ""
  /\ dropboxClient = 0

AuthNext ==
  \/ handleLogin
  \/ handleLogout
  \/ selectTeamMember
  \/ toggleNamespaceView
  \/ AuthNavigate
  \/ AuthCommit
  \/ AccountResolved
  \/ AccountRejected
  \/ TeamResolved
  \/ TeamRejected

\* the provider after construction with the localStorage a former visit
\* left: the values useLocalStorage reads back, written by the handlers above
AuthInitStored ==
  /\ accessToken \in {0} \cup Tokens
  /\ refreshToken = accessToken
  /\ isTeamAuth \in BOOLEAN
  /\ teamMembers \in {{}, Members}
  /\ selectedMember \in {0} \cup teamMembers
  /\ rootNamespaceId \in {"null", ""} \cup NamespaceIds
  /\ isViewingRoot \in BOOLEAN
  /\ accessToken = 0 =>
       /\ ~isTeamAuth /\ rootNamespaceId = "null" /\ ~isViewingRoot
  /\ ~isTeamAuth => teamMembers = {}
  /\ currentAccount = 0
  /\ loading = TRUE
  /\ pathRoot = "null"
  /\ authRendered = Nothing
  /\ requests = <<>>
  /\ loggedOut = FALSE
  /\ answered = Nothing
  /\ currentPath \in IF accessToken = 0 THEN {""} ELSE Paths
  /\ dropboxClient = 0

\* the initialisation of the client: while the loading flag is set the
\* ProtectedRoute renders no FileBrowser, so of the handlers only handleLogin
\* of the LoginPage can be called
AuthLoadNext ==
  \/ handleLogin
  \/ AuthCommit
  \/ AccountResolved
  \/ AccountRejected
  \/ TeamResolved
  \/ TeamRejected

(***************************************************************************)
(* LoginPage (LoginPage.jsx): the callback effect and its token exchange.  *)
(* The effect depends on searchParams, handleLogin and navigate, and       *)
(* handleLogin is a new function with every render of the provider, so the *)
(* effect runs again at any time.                                          *)
(***************************************************************************)
MaxRuns == 4
MaxCalls == 3

\* the code parameter of the URL: 0 when there is none
Codes == {1, 2}

\* handleCallback: the two early returns before the exchange
MayExchangeIgnoresRef(c, exchanged) == c # 0
MayExchange(c, exchanged) == c # 0 /\ ~exchanged

\* LoginPage is mounted, at "/" or at the redirect URI with its parameters,
\* once the exchange of an earlier page has settled
LoginMount ==
  /\ OnlyLogin
  /\ ~lpMounted
  /\ exchange = 0
  /\ lpMounted' = TRUE
  /\ code' \in {0} \cup Codes
  /\ oauthError' \in BOOLEAN
  /\ isLoading' = FALSE
  /\ lpError' = "null"
  /\ hasExchangedCode' = FALSE
  /\ exchangeCalls' = 0
  /\ effectRuns' = 0
  /\ UNCHANGED exchange

\* the callback effect runs: handleCallback up to its await
handleCallback ==
  /\ OnlyLogin
  /\ lpMounted
  /\ effectRuns < MaxRuns
  /\ effectRuns' = effectRuns + 1
  /\ IF ~MayExchange(code, hasExchangedCode)
       THEN UNCHANGED <<isLoading, lpError, hasExchangedCode, exchange, exchangeCalls>>
       ELSE IF oauthError
         THEN \* setError('Authentication failed: ...'); setIsLoading(false)
              /\ lpError' = "oauth"
              /\ isLoading' = FALSE
              /\ UNCHANGED <<hasExchangedCode, exchange, exchangeCalls>>
         ELSE \* hasExchangedCode.current = true; getTokensFromCode(...)
              /\ exchange = 0
              /\ exchangeCalls < MaxCalls
              /\ isLoading' = TRUE
              /\ hasExchangedCode' = TRUE
              /\ exchange' = code
              /\ exchangeCalls' = exchangeCalls + 1
              /\ lpError' = lpError
  /\ UNCHANGED <<lpMounted, code, oauthError>>

\* getTokensFromCode resolves: handleLogin(tokens, offlineAccess) and
\* navigate('/browser'), which unmounts the page
ExchangeResolves ==
  /\ OnlyLogin
  /\ exchange # 0
  /\ exchange' = 0
  /\ lpMounted' = FALSE
  /\ UNCHANGED <<code, oauthError, isLoading, lpError, hasExchangedCode,
                 exchangeCalls, effectRuns>>

\* getTokensFromCode rejects: the catch and the finally
ExchangeRejects ==
  /\ OnlyLogin
  /\ exchange # 0
  /\ exchange' = 0
  /\ lpError' = IF lpMounted THEN "exchange" ELSE lpError
  /\ isLoading' = IF lpMounted THEN FALSE ELSE isLoading
  /\ UNCHANGED <<lpMounted, code, oauthError, hasExchangedCode, exchangeCalls,
                 effectRuns>>

\* the Try Again button: setError(null)
TryAgain ==
  /\ OnlyLogin
  /\ lpMounted
  /\ lpError # "null"
  /\ lpError' = "null"
  /\ UNCHANGED <<lpMounted, code, oauthError, isLoading, hasExchangedCode, exchange,
                 exchangeCalls, effectRuns>>

\* the URL changes while the page stays mounted: new searchParams
SearchParamsChange ==
  /\ OnlyLogin
  /\ lpMounted
  /\ code' \in {0} \cup Codes
  /\ oauthError' \in BOOLEAN
  /\ <<code', oauthError'>> # <<code, oauthError>>
  /\ UNCHANGED <<lpMounted, isLoading, lpError, hasExchangedCode, exchange,
                 exchangeCalls, effectRuns>>

\* the page is left for another route
LoginUnmount ==
  /\ OnlyLogin
  /\ lpMounted
  /\ lpMounted' = FALSE
  /\ UNCHANGED <<code, oauthError, isLoading, lpError, hasExchangedCode, exchange,
                 exchangeCalls, effectRuns>>

LoginInit ==
  /\ lpMounted = TRUE
  /\ code \in {0} \cup Codes
  /\ oauthError \in BOOLEAN
  /\ isLoading = FALSE
  /\ lpError = "null"
  /\ hasExchangedCode = FALSE
  /\ exchange = 0
  /\ exchangeCalls = 0
  /\ effectRuns = 0

LoginNext ==
  \/ LoginMount
  \/ handleCallback
  \/ ExchangeResolves
  \/ ExchangeRejects
  \/ TryAgain
  \/ SearchParamsChange
  \/ LoginUnmount

(***************************************************************************)
(* The image-flipping server (controller.js): the routes home, fileAction  *)
(* and auth, authorize and prepareImages.  Time is counted in minutes.     *)
(***************************************************************************)
MaxStates == 2
MaxNow == 120
TickMinutes == 10

Sessions == {1, 2}

\* "OAuth state value is only valid for 10 minutes"
STATE_VALID_MINUTES == 10

\* mycache.set(state, req.session.id, 6000): node-cache counts the ttl in
\* seconds
TTL_SECONDS == 6000
TTL_MINUTES == TTL_SECONDS \div 60

\* the state parameter of a request: one that authorize issued, or 0, which
\* it never issues
IssuedStates == {i.state : i \in issued}
RequestStates == {0} \cup IssuedStates

\* crypto.randomBytes(16).toString('hex'): a value not issued before
FreshState == Cardinality(issued) + 1

\* mycache.get(state): the session id stored under the key, 0 (undefined)
\* when there is none or its ttl has run out
CacheGet(cache, st, t) ==
  IF \E e \in cache : e.state = st /\ t <= e.expires
    THEN (CHOOSE e \in cache : e.state = st /\ t <= e.expires).session
    ELSE 0

\* mycache.set(state, id, ttl) and mycache.del(state)
CacheSet(cache, st, id, t) ==
  {e \in cache : e.state # st} \cup {[state |-> st, session |-> id, expires |-> t + TTL_MINUTES]}
CacheDel(cache, st) == {e \in cache : e.state # st}

\* the second test of auth: session_id != req.session.id
AnySession(id, s) == FALSE
OtherSession(id, s) == id # s

Handled(route, s, st, hadToken, cause, status) ==
  [route |-> route, session |-> s, state |-> st, hadToken |-> hadToken,
   cause |-> cause, status |-> status]

\* authorize(dbx, req, res): a new state is stored for the session and the
\* answer redirects to the authorization URL with it
authorize(route, s) ==
  /\ Cardinality(issued) < MaxStates
  /\ mycache' = CacheSet(mycache, FreshState, s, now)
  /\ issued' = issued \cup {[state |-> FreshState, session |-> s, at |-> now]}
  /\ handled' = Handled(route, s, FreshState, FALSE, "no token", "302 authorize")

\* authorize(req, res), the call in the catch of prepareImages: its req is
\* the response object, which has no session, so reading req.session.id
\* throws before anything is stored or sent
authorizeWithoutDbx(route, s) ==
  /\ handled' = Handled(route, s, 0, TRUE, "401", "none")
  /\ UNCHANGED <<mycache, issued>>

\* prepareImages up to the await of filesDownload
prepareImages(route, s) ==
  /\ downloads' = downloads \cup {s}
  /\ handled' = Handled(route, s, 0, TRUE, "", "pending")
  /\ UNCHANGED <<mycache, issued>>

\* the route home
home ==
  /\ OnlyFlip
  /\ \E s \in Sessions :
       IF sessions[s].token = 0
         THEN authorize("home", s) /\ UNCHANGED downloads
         ELSE IF sessions[s].file = "id"
           THEN prepareImages("home", s)
           ELSE \* no file picked, or the images are presented
                /\ handled' = Handled("home", s, 0, TRUE, "", "200")
                /\ UNCHANGED <<mycache, issued, downloads>>
  /\ UNCHANGED <<sessions, now, pending>>

\* the route fileAction
fileAction ==
  /\ OnlyFlip
  /\ \E s \in Sessions, hasFileId \in BOOLEAN :
       IF ~hasFileId
         THEN /\ handled' = Handled("fileAction", s, 0, sessions[s].token # 0, "no file_id", "400")
              /\ UNCHANGED <<mycache, issued, downloads, sessions>>
         ELSE /\ sessions' = [sessions EXCEPT ![s].file = "id"]
              /\ IF sessions[s].token = 0
                   THEN authorize("fileAction", s) /\ UNCHANGED downloads
                   ELSE prepareImages("fileAction", s)
  /\ UNCHANGED <<now, pending>>

\* filesDownload is answered: the rest of prepareImages
downloadAnswered ==
  /\ OnlyFlip
  /\ \E s \in downloads, outcome \in {"ok", "401", "error"} :
       /\ downloads' = downloads \ {s}
       /\ IF outcome = "ok"
            THEN /\ sessions' = [sessions EXCEPT ![s].file = "cached"]
                 /\ handled' = Handled("prepareImages", s, 0, TRUE, "", "200")
                 /\ UNCHANGED <<mycache, issued>>
            ELSE IF outcome = "401"
              THEN /\ authorizeWithoutDbx("prepareImages", s)
                   /\ UNCHANGED sessions
              ELSE /\ handled' = Handled("prepareImages", s, 0, TRUE, "error", "500")
                   /\ UNCHANGED <<mycache, issued, sessions>>
  /\ UNCHANGED <<now, pending>>

\* the route auth up to the await of getAccessTokenFromCode
auth ==
  /\ OnlyFlip
  /\ \E s \in Sessions, st \in RequestStates, hasCode \in BOOLEAN, errorDescription \in BOOLEAN :
       LET session_id == CacheGet(mycache, st, now)
           hadToken == sessions[s].token # 0
       IN IF errorDescription
            THEN /\ handled' = Handled("auth", s, st, hadToken, "error_description", "500")
                 /\ UNCHANGED pending
            ELSE IF session_id = 0
              THEN /\ handled' = Handled("auth", s, st, hadToken, "", "440")
                   /\ UNCHANGED pending
              ELSE IF OtherSession(session_id, s)
                THEN /\ handled' = Handled("auth", s, st, hadToken, "", "500")
                     /\ UNCHANGED pending
                ELSE IF hasCode
                  THEN /\ pending = {}
                       /\ pending' = {[session |-> s, state |-> st]}
                       /\ handled' = Handled("auth", s, st, hadToken, "", "pending")
                  ELSE \* no code: the handler ends without an answer
                       /\ handled' = Handled("auth", s, st, hadToken, "no code", "none")
                       /\ UNCHANGED pending
  /\ UNCHANGED <<mycache, sessions, now, downloads, issued>>

\* getAccessTokenFromCode resolves: the token is stored, the state deleted,
\* and the account is fetched
exchangeResolves ==
  /\ OnlyFlip
  /\ \E p \in pending, accountOk \in BOOLEAN :
       /\ pending' = pending \ {p}
       /\ sessions' = [sessions EXCEPT ![p.session].token = 1]
       /\ mycache' = CacheDel(mycache, p.state)
       /\ handled' = Handled("auth", p.session, p.state, TRUE, "exchanged",
                          IF accountOk THEN "302 /" ELSE "500")
  /\ UNCHANGED <<now, downloads, issued>>

\* getAccessTokenFromCode rejects: the catch of auth
exchangeRejects ==
  /\ OnlyFlip
  /\ \E p \in pending :
       /\ pending' = pending \ {p}
       /\ handled' = Handled("auth", p.session, p.state, sessions[p.session].token # 0,
                          "exchange failed", "500")
  /\ UNCHANGED <<mycache, sessions, now, downloads, issued>>

\* time passes
Tick ==
  /\ OnlyFlip
  /\ now + TickMinutes <= MaxNow
  /\ now' = now + TickMinutes
  /\ UNCHANGED <<mycache, sessions, pending, downloads, issued, handled>>

\* the server after its start: no state stored; a session holds a token or
\* none and has no file picked
FlipInit ==
  /\ mycache = {}
  /\ sessions \in [Sessions -> [token : {0, 1}, file : {"none"}]]
  /\ now = 0
  /\ pending = {}
  /\ downloads = {}
  /\ issued = {}
  /\ handled = Nothing

\* the OAuth flow
OAuthNext ==
  \/ home
  \/ auth
  \/ exchangeResolves
  \/ exchangeRejects
  \/ Tick

\* the file flow
FlipNext ==
  \/ home
  \/ fileAction
  \/ downloadAnswered

(***************************************************************************)
(* saveToDropbox (controller.js).  A path is the sequence of its           *)
(* characters; the note "(edited - FlipImage)" is one element.             *)
(***************************************************************************)
MaxPathLen == 7

NOTE == "(edited - FlipImage)"
PathChars == {"/", "a", "."}

\* the indices of the character c in the path p
IndicesOf(p, c) == {i \in 1..Len(p) : p[i] = c}
MaxOf(S) == CHOOSE x \in S : \A y \in S : y <= x

\* a path_lower of a file: segments led by "/", each starting with a letter
\* and not ending with a dot
IsFilePath(p) ==
  /\ Len(p) >= 2
  /\ p[1] = "/"
  /\ p[Len(p)] = "a"
  /\ \A i \in 1..(Len(p) - 1) :
       /\ p[i] = "/" => p[i + 1] = "a"
       /\ p[i] = "." => p[i + 1] # "/"

FilePaths ==
  UNION {{p \in [1..n -> PathChars] : IsFilePath(p)} : n \in 2..MaxPathLen}

RECURSIVE ReplaceFrom(_, _, _)
ReplaceFrom(p, i, with) ==
  IF i > Len(p) THEN <<>>
  ELSE (IF p[i] = "." THEN with ELSE <<p[i]>>) \o ReplaceFrom(p, i + 1, with)

\* path_lower.replace(/\./g, "(edited - FlipImage).")
ReplaceDots(p) == ReplaceFrom(p, 1, <<NOTE, ".">>)

\* saveToDropbox up to the await of filesUpload
saveToDropbox ==
  /\ OnlySave
  /\ svPc = "start"
  /\ dbx_save_path' = ReplaceDots(path_lower)
  /\ svPc' = "upload"
  /\ UNCHANGED <<path_lower, svReply>>

\* filesUpload and sharingCreateSharedLinkWithSettings are answered
saveAnswered ==
  /\ OnlySave
  /\ svPc = "upload"
  /\ \E ok \in BOOLEAN :
       svReply' = IF ok THEN "302 shared link" ELSE "500"
  /\ svPc' = "done"
  /\ UNCHANGED <<path_lower, dbx_save_path>>

SaveInit ==
  /\ svPc = "start"
  /\ path_lower \in FilePaths
  /\ dbx_save_path = <<>>
  /\ svReply = "none"

SaveNext ==
  \/ saveToDropbox
  \/ saveAnswered

(***************************************************************************)
(* runBatch (Batch Transfer Scheduler).  The scheduler of the performant   *)
(* upload sample is not among the sources at hand; its README gives the    *)
(* two thread counts, and this part follows the contract of the            *)
(* specification, section 4.4: an outer pool of batchConcurrency jobs, an  *)
(* inner pool of chunkConcurrency chunk operations in each job, one result *)
(* a job, returned once every job has ended.                               *)
(***************************************************************************)
MaxJobs == 5
MaxChunks == 2
\* config: batch_thread_count and concurrent_thread_count, scaled down
batchConcurrency == 2
chunkConcurrency == 2

JobIds == 1..Len(jobs)
Terminal == {"succeeded", "failed"}
\* the jobs that hold a place of the outer pool
ActiveJobs == {j \in JobIds : jobPc[j] \in {"active", "failing"}}
\* the chunk operations of job j in progress
InProgress(j) == started[j] - ended[j]

\* the Result of job j: the created Entry, or an error tagged to the job
ResultOf(j, pc) ==
  IF pc = "succeeded" THEN [entry |-> j] ELSE [error |-> "failed", job |-> j]

\* the outer pool admits a job while fewer than batchConcurrency are active
OuterPoolUnbounded(active) == TRUE
OuterPoolHasRoom(active) == Cardinality(active) < batchConcurrency

\* the inner pool of a job admits a chunk operation while fewer than
\* chunkConcurrency are in progress
InnerPoolHasRoom(n) == n < chunkConcurrency

\* the scheduler returns when every job has reached a terminal state
ReturnsAtFirstFailure(pcs) ==
  \/ \E j \in 1..Len(pcs) : pcs[j] = "failed"
  \/ \A j \in 1..Len(pcs) : pcs[j] \in Terminal
AllTerminal(pcs) == \A j \in 1..Len(pcs) : pcs[j] \in Terminal

\* a job leaves the queue for the outer pool
StartJob ==
  /\ OnlyBatch
  /\ bPc = "running"
  /\ \E j \in JobIds :
       /\ jobPc[j] = "queued"
       /\ OuterPoolHasRoom(ActiveJobs)
       /\ jobPc' = [jobPc EXCEPT ![j] = "active"]
  /\ UNCHANGED <<bPc, jobs, started, ended, results>>

\* an active job starts its next chunk operation
StartChunk ==
  /\ OnlyBatch
  /\ bPc = "running"
  /\ \E j \in JobIds :
       /\ jobPc[j] = "active"
       /\ started[j] < jobs[j]
       /\ InnerPoolHasRoom(InProgress(j))
       /\ started' = [started EXCEPT ![j] = @ + 1]
  /\ UNCHANGED <<bPc, jobs, jobPc, ended, results>>

\* a chunk operation succeeds; with the last one the job has its Entry; a
\* failing job that has no operation left in progress has failed
ChunkSucceeds ==
  /\ OnlyBatch
  /\ bPc = "running"
  /\ \E j \in JobIds :
       /\ InProgress(j) > 0
       /\ ended' = [ended EXCEPT ![j] = @ + 1]
       /\ jobPc' = [jobPc EXCEPT ![j] =
                      IF @ = "failing"
                        THEN IF InProgress(j) = 1 THEN "failed" ELSE "failing"
                        ELSE IF ended[j] + 1 = jobs[j] THEN "succeeded" ELSE "active"]
  /\ UNCHANGED <<bPc, jobs, started, results>>

\* a chunk operation fails: its job starts no further operation and has
\* failed once the operations in progress have ended
ChunkFails ==
  /\ OnlyBatch
  /\ bPc = "running"
  /\ \E j \in JobIds :
       /\ InProgress(j) > 0
       /\ ended' = [ended EXCEPT ![j] = @ + 1]
       /\ jobPc' = [jobPc EXCEPT ![j] = IF InProgress(j) = 1 THEN "failed" ELSE "failing"]
  /\ UNCHANGED <<bPc, jobs, started, results>>

\* every job has ended: runBatch returns the results, one a job
ReturnBatch ==
  /\ OnlyBatch
  /\ bPc = "running"
  /\ AllTerminal(jobPc)
  /\ results' = [j \in JobIds |-> ResultOf(j, jobPc[j])]
  /\ bPc' = "returned"
  /\ UNCHANGED <<jobs, jobPc, started, ended>>

BatchInit ==
  /\ bPc = "running"
  /\ \E n \in 1..MaxJobs : jobs \in [1..n -> 1..MaxChunks]
  /\ jobPc = [j \in JobIds |-> "queued"]
  /\ started = [j \in JobIds |-> 0]
  /\ ended = [j \in JobIds |-> 0]
  /\ results = <<>>

BatchNext ==
  \/ StartJob
  \/ StartChunk
  \/ ChunkSucceeds
  \/ ChunkFails
  \/ ReturnBatch

(***************************************************************************)
(* The file browser against the remote it lists.  The remote holds two     *)
(* folders: the root, whose content changes, and /x, whose content does    *)
(* not.  A cursor is a token of the remote for one folder at one point of  *)
(* its history: filesListFolder hands out the cursor of the content it     *)
(* returned, and filesListFolderContinue returns the records of the        *)
(* changes made to the folder of the cursor since then, with the cursor of *)
(* the point reached.  The actions below are those of the component with   *)
(* the answers the remote gives; the other steps of the component (Commit, *)
(* Unmount, Navigate, Reload, ChangesFail, TimerFires) are the ones above; *)
(* a long-poll request is taken to be answered.                            *)
(***************************************************************************)
\* changes made to the root folder in one behaviour
MaxLog == 2

\* the last record of a batch for key k
LastFor(recs, k) ==
  recs[CHOOSE i \in 1..Len(recs) :
         /\ recs[i].path_lower = k
         /\ \A j \in (i + 1)..Len(recs) : recs[j].path_lower # k]

\* the entries of the folders when the model begins
RemoteBase(path) == IF path = "" THEN <<MkEntry("file", "a")>> ELSE <<MkEntry("file", "b")>>

\* the history of a folder up to its version v
HistoryOf(path, v) ==
  RemoteBase(path) \o (IF path = "" THEN SubSeq(remoteLog, 1, v) ELSE <<>>)

VersionNow(path) == IF path = "" THEN Len(remoteLog) ELSE 0

\* the non-deleted entries of a folder at version v: for every key the last
\* record of its history, unless that is a tombstone
LiveAt(path, v) ==
  {e \in {LastFor(HistoryOf(path, v), k) : k \in Keys(HistoryOf(path, v))} :
     e.tag # "deleted"}

\* the cursor of a folder at a version, and what a cursor stands for
CursorFor(path, v) == IF path = "" THEN 1 + v ELSE MaxLog + 2
CursorPath(c) == IF c <= MaxLog + 1 THEN "" ELSE "/x"
CursorVersion(c) == IF c <= MaxLog + 1 THEN c - 1 ELSE 0

\* the entries of a set in some order
RECURSIVE SeqOf(_)
SeqOf(S) == IF S = {} THEN <<>> ELSE LET e == CHOOSE x \in S : TRUE
                                     IN <<e>> \o SeqOf(S \ {e})

\* the records filesListFolderContinue has still to return to a getChanges
\* that was called with cursor c and has fetched n records
Remaining(c, n) ==
  IF CursorPath(c) = ""
    THEN SubSeq(remoteLog, CursorVersion(c) + n + 1, Len(remoteLog))
    ELSE <<>>

\* what listFolder hands to loadCurrentFolder for a folder: its entries now
\* with the cursor of now, or a failure
ServedOutcomes(path) ==
  {[ok |-> TRUE,
    result |-> ListFolderReturn(SeqOf(LiveAt(path, VersionNow(path))),
                                [cursor |-> CursorFor(path, VersionNow(path))]),
    err |-> "none"]}
    \cup {[ok |-> FALSE, result |-> Nothing, err |-> e] : e \in ListErrors}

\* somebody changes the root folder: an entry is written, or a live entry
\* is deleted
RemoteChanges ==
  /\ OnlyRemote
  /\ Len(remoteLog) < MaxLog
  /\ \E r \in PollDelta :
       /\ r.tag = "deleted" =>
            r.path_lower \in {e.path_lower : e \in LiveAt("", Len(remoteLog))}
       /\ remoteLog' = Append(remoteLog, r)
  /\ UNCHANGED fbVars

\* listFolder answers a loadCurrentFolder that an effect or a handler called
LoadServed ==
  /\ OnlyRemote
  /\ \E l \in LoadSlots :
       /\ loads[l].pc = "listing"
       /\ \E out \in ServedOutcomes(loads[l].path) :
            /\ AfterListing(loads[l].path, out)
       /\ loads' = [loads EXCEPT ![l] = FreeLoad]
  /\ UNCHANGED <<mounted, dropboxClient, isPollingRef, longPollTimeoutRef,
                 backoffTimeoutRef, rendered, polls, timers>>
  /\ UNCHANGED remoteLog

\* the long-poll of a cursor is answered when its time is over and nothing
\* has changed in the folder of the cursor: changes: false
LongPollServedNoChanges ==
  /\ OnlyRemote
  /\ \E t \in PollSlots, b \in Backoffs :
       /\ polls[t].pc = "longpoll"
       /\ Remaining(polls[t].cur, 0) = <<>>
       /\ HasFreeTimer(timers)
       /\ AfterCycle([polls[t] EXCEPT !.backoff = b])
       /\ polls' = [polls EXCEPT ![t] = FreePoll]
  /\ UNCHANGED <<mounted, currentPath, dropboxClient, entries, cursor, error,
                 rendered, loads>>
  /\ UNCHANGED remoteLog

\* the folder of the cursor has changed: changes: true; getChanges(
\* dropboxClient, cursor) is called and awaits its first
\* filesListFolderContinue
LongPollServedChanges ==
  /\ OnlyRemote
  /\ \E t \in PollSlots, b \in Backoffs :
       /\ polls[t].pc = "longpoll"
       /\ Remaining(polls[t].cur, 0) # <<>>
       /\ polls' = [polls EXCEPT ![t].pc = "changes", ![t].backoff = b]
  /\ UNCHANGED <<mounted, currentPath, dropboxClient, entries, cursor, error,
                 isPollingRef, longPollTimeoutRef, backoffTimeoutRef, rendered,
                 loads, timers>>
  /\ UNCHANGED remoteLog

\* getChanges: a page with has_more set, holding the next record
ChangesPageServed ==
  /\ OnlyRemote
  /\ \E t \in PollSlots :
       /\ polls[t].pc = "changes"
       /\ Len(polls[t].all) + 1 < MaxDeltaPages
       /\ LET rest == Remaining(polls[t].cur, Len(polls[t].all)) IN
            /\ Len(rest) >= 2
            /\ polls' = [polls EXCEPT ![t].all = ArrayConcat(@, <<rest[1]>>)]
  /\ UNCHANGED <<mounted, currentPath, dropboxClient, entries, cursor, error,
                 isPollingRef, longPollTimeoutRef, backoffTimeoutRef, rendered,
                 loads, timers>>
  /\ UNCHANGED remoteLog

\* getChanges: the last page, holding the records that remain; getChanges
\* returns, the delta is merged, the cursor is set, and the cycle ends with
\* its timer
ChangesServed ==
  /\ OnlyRemote
  /\ \E t \in PollSlots :
       /\ polls[t].pc = "changes"
       /\ HasFreeTimer(timers)
       /\ LET path == CursorPath(polls[t].cur)
              resp == [entries |-> Remaining(polls[t].cur, Len(polls[t].all)),
                       has_more |-> FALSE,
                       cursor |-> CursorFor(path, VersionNow(path))]
              changes == GetChangesReturn(ArrayConcat(polls[t].all, resp.entries), resp)
          IN /\ entries' = SetState(entries, MergeChanges(entries, changes.entries))
             /\ cursor' = SetState(cursor, changes.cursor)
       /\ AfterCycle(polls[t])
       /\ polls' = [polls EXCEPT ![t] = FreePoll]
  /\ UNCHANGED <<mounted, currentPath, dropboxClient, error, rendered, loads>>
  /\ UNCHANGED remoteLog

\* listFolder answers the loadCurrentFolder of the inner catch; the cycle
\* ends with its timer
FallbackServed ==
  /\ OnlyRemote
  /\ \E t \in PollSlots :
       /\ polls[t].pc = "reload"
       /\ HasFreeTimer(timers)
       /\ \E path \in Paths :
            \E out \in ServedOutcomes(path) :
              /\ AfterListing(path, out)
              /\ AfterCycle(polls[t])
       /\ polls' = [polls EXCEPT ![t] = FreePoll]
  /\ UNCHANGED <<mounted, dropboxClient, rendered, loads>>
  /\ UNCHANGED remoteLog

SyncNext ==
  \/ Commit
  \/ Unmount
  \/ Navigate
  \/ Reload
  \/ ChangesFail
  \/ TimerFires
  \/ RemoteChanges
  \/ LoadServed
  \/ LongPollServedNoChanges
  \/ LongPollServedChanges
  \/ ChangesPageServed
  \/ ChangesServed
  \/ FallbackServed

(***************************************************************************)
(* The specifications.                                                     *)
(***************************************************************************)
InitSnapshot == ListInit /\ MergeIdle /\ UploadIdle /\ BrowserInit /\ ExtIdle
SpecSnapshot == InitSnapshot /\ [][SnapshotNext]_vars

InitList == ListInit /\ MergeIdle /\ UploadIdle /\ BrowserIdle /\ ExtIdle
SpecList == InitList /\ [][ListNext]_vars

InitMerge == ListInit /\ MergeInit /\ UploadIdle /\ BrowserIdle /\ ExtIdle
SpecMerge == InitMerge /\ [][MergeNext]_vars

InitUpload == ListInit /\ MergeIdle /\ UploadInit /\ BrowserIdle /\ ExtIdle
SpecUpload == InitUpload /\ [][UploadNext]_vars

\* the file browser's parts at rest
CoreIdle == ListInit /\ MergeIdle /\ UploadIdle /\ BrowserIdle

InitReport == ListInit /\ MergeIdle /\ UploadIdle /\ BrowserInit /\ ExtIdle
SpecReport == InitReport /\ [][ReportNext]_vars

\* the FileBrowser is not mounted and holds nothing
BrowserUnmounted ==
  /\ mounted = FALSE
  /\ entries = <<>>
  /\ cursor = NoCursor
  /\ error = FALSE
  /\ isPollingRef = FALSE
  /\ longPollTimeoutRef = 0
  /\ backoffTimeoutRef = 0
  /\ rendered = Nothing
  /\ polls = [i \in PollSlots |-> FreePoll]
  /\ loads = [i \in LoadSlots |-> FreeLoad]
  /\ timers = <<>>

InitAuth ==
  /\ ListInit /\ MergeIdle /\ UploadIdle /\ BrowserUnmounted
  /\ BatchIdle /\ ReportIdle /\ AuthInit /\ LoginIdle /\ FlipIdle /\ SaveIdle
  /\ RemoteIdle
SpecAuth == InitAuth /\ [][AuthNext]_vars

InitAuthStored ==
  /\ ListInit /\ MergeIdle /\ UploadIdle /\ BrowserUnmounted
  /\ BatchIdle /\ ReportIdle /\ AuthInitStored /\ LoginIdle /\ FlipIdle /\ SaveIdle
  /\ RemoteIdle

\* the render that follows a change of state happens, and every request of
\* the effect is answered
AuthLoadFair ==
  /\ WF_vars(AuthCommit)
  /\ WF_vars(AccountResolved \/ AccountRejected)
  /\ WF_vars(TeamResolved \/ TeamRejected)
SpecAuthLoad == InitAuthStored /\ [][AuthLoadNext]_vars /\ AuthLoadFair

InitLogin ==
  /\ CoreIdle /\ BatchIdle /\ ReportIdle /\ AuthIdle /\ LoginInit /\ FlipIdle /\ SaveIdle
  /\ RemoteIdle
SpecLogin == InitLogin /\ [][LoginNext]_vars

InitFlip ==
  /\ CoreIdle /\ BatchIdle /\ ReportIdle /\ AuthIdle /\ LoginIdle /\ FlipInit /\ SaveIdle
  /\ RemoteIdle
SpecOAuth == InitFlip /\ [][OAuthNext]_vars
SpecFlip == InitFlip /\ [][FlipNext]_vars

InitSave ==
  /\ CoreIdle /\ BatchIdle /\ ReportIdle /\ AuthIdle /\ LoginIdle /\ FlipIdle /\ SaveInit
  /\ RemoteIdle
SpecSave == InitSave /\ [][SaveNext]_vars

InitBatch ==
  /\ CoreIdle /\ BatchInit /\ ReportIdle /\ AuthIdle /\ LoginIdle /\ FlipIdle /\ SaveIdle
  /\ RemoteIdle
SpecBatch == InitBatch /\ [][BatchNext]_vars

InitPoll == ListInit /\ MergeIdle /\ UploadIdle /\ BrowserInit /\ ExtIdle
SpecPoll == InitPoll /\ [][BrowserNext]_vars

InitSync == ListInit /\ MergeIdle /\ UploadIdle /\ BrowserInit /\ ExtIdle
SpecSync == InitSync /\ [][SyncNext]_vars

CallNames(calls) == [i \in 1..Len(calls) |-> calls[i].call]

\* C10: a file of at most 150 MiB is uploaded by exactly one one-shot call
\* with the whole payload and no session call; a larger one by no one-shot
\* call but a session: a start, then appends, then a finish.
C10_OneShotUpToThreshold ==
  upPc # "start" =>
    IF fileSize <= SMALL_FILE_THRESHOLD
      THEN /\ CallNames(upCalls) = <<"upload">>
           /\ upCalls[1].bytes = fileSize
      ELSE /\ \A i \in 1..Len(upCalls) : upCalls[i].call # "upload"
           /\ upCalls[1].call = "start"
           /\ \A i \in 2..Len(upCalls) : upCalls[i].call \in {"append", "finish"}
           /\ upPc = "returned" =>
                /\ Len(upCalls) >= 2
                /\ upCalls[Len(upCalls)].call = "finish"
                /\ \A i \in 2..(Len(upCalls) - 1) : upCalls[i].call = "append"

\* C10 witness: a file of exactly 150 MiB went up in one call
C10_Witness ==
  /\ upPc = "returned"
  /\ fileSize = SMALL_FILE_THRESHOLD
  /\ CallNames(upCalls) = <<"upload">>

\* a file one byte larger went up through a session
C10_WitnessChunked ==
  /\ upPc = "returned"
  /\ fileSize = SMALL_FILE_THRESHOLD + 1
  /\ CallNames(upCalls) = <<"start", "append", "finish">>

\* the key -> entry map a snapshot stands for
AsMap(s) == {s[i] : i \in 1..Len(s)}

\* C2: merging the same batch twice yields the same snapshot as merging it
\* once.
C2_MergeIdempotent == merges = 2 => mergedTwice = mergedOnce

\* the entries of the snapshot, whatever their order, are the same after the
\* second merge
MergeIdempotentAsMap == merges = 2 => AsMap(mergedTwice) = AsMap(mergedOnce)

\* and the order is the same as well unless two entries of different keys
\* compare equal
MergeIdempotentUntied ==
  merges = 2 /\ (\A i, j \in 1..Len(mergedOnce) :
                   i # j => CompareEntries(mergedOnce[i], mergedOnce[j]) # 0)
    => mergedTwice = mergedOnce

RECURSIVE Flatten(_)
Flatten(pages) == IF pages = <<>> THEN <<>> ELSE Head(pages) \o Flatten(Tail(pages))

\* C1: when listFolder returns, its entries are exactly the entries of all the
\* pages the remote served, each as often as it was served: N entries for N
\* served, whatever the page boundaries.
C1_ListReturnsAllPages ==
  lfPc = "returned" =>
    /\ Len(lfResult.entries) = Len(Flatten(pagesServed))
    /\ SameBag(lfResult.entries, Flatten(pagesServed))

\* C1 witness: a listing of three entries over three pages has returned
C1_Witness ==
  /\ lfPc = "returned"
  /\ Len(pagesServed) = 3
  /\ \A i \in 1..3 : Len(pagesServed[i]) = 1
  /\ Len(lfResult.entries) = 3

(***************************************************************************)
(* The steps of the file browser as the state shows them.  Slot t holds    *)
(* one invocation of startLongPolling; timer i is the i-th pending timer.  *)
(***************************************************************************)
\* a long-poll request is sent
Issued(t) == polls[t].pc = "free" /\ polls'[t].pc = "longpoll"
\* getChanges is called
DeltaFetched(t) == polls[t].pc = "longpoll" /\ polls'[t].pc = "changes"
\* a page of the delta arrives and another is asked for
PageFetched(t) ==
  polls[t].pc = "changes" /\ polls'[t].pc = "changes" /\ polls'[t] # polls[t]
\* getChanges returns and its delta is merged
DeltaApplied(t) == polls[t].pc = "changes" /\ polls'[t].pc = "free"
\* getChanges throws and loadCurrentFolder is called
DeltaFailed(t) == polls[t].pc = "changes" /\ polls'[t].pc = "reload"
\* the listing of that loadCurrentFolder is answered
FellBack(t) == polls[t].pc = "reload" /\ polls'[t].pc = "free"
\* startLongPoll rejects: the cycle ends by setting the retry timer
LongPollFailed(t) ==
  /\ polls[t].pc = "longpoll" /\ polls'[t].pc = "free"
  /\ Len(timers') = Len(timers) + 1
  /\ timers'[Len(timers')].site = "retry"
\* the callback of timer i runs
Fired(i) ==
  /\ timers' = ClearTimeouts(timers, {timers[i].id})
  /\ rendered' = rendered
  /\ mounted' = mounted
\* the loop of cursor c has not been stopped: the component is mounted, no
\* render is due, and c is the cursor of the render
Running(c) == mounted /\ rendered = Deps /\ cursor = c
\* a long-poll for cursor c is sent
IssuedFor(c) == \E t \in PollSlots : Issued(t) /\ polls'[t].cur = c
BackoffPending(tms) == \E i \in 1..Len(tms) : tms[i].site = "backoff"

C5_BackoffHonoured ==
  [][\A t \in PollSlots :
       /\ DeltaFetched(t) => polls'[t].backoff = 0
       /\ Issued(t) => ~BackoffPending(timers')
    ]_vars

\* the second half of C5 alone
NoPollWhileBackoffPending ==
  [][\A t \in PollSlots : Issued(t) => ~BackoffPending(timers')]_vars

\* C6: when the 1-second timer set after an answer without changes and
\* without backoff runs, and the loop has not been stopped, a long-poll with
\* the same cursor is sent.
C6_RepollsAfterDelay ==
  [][\A i \in 1..Len(timers) :
       Fired(i) /\ timers[i].site = "repoll" /\ Running(timers[i].cur)
         => IssuedFor(timers[i].cur)
    ]_vars

\* C7: a failed long-poll leaves cursor and snapshot as they are, and when
\* its 5-second timer runs, the loop not stopped, a long-poll with the same
\* cursor is sent.
C7_RetriesAfterFailure ==
  [][/\ \A t \in PollSlots : LongPollFailed(t) => cursor' = cursor /\ entries' = entries
     /\ \A i \in 1..Len(timers) :
          Fired(i) /\ timers[i].site = "retry" /\ Running(timers[i].cur)
            => IssuedFor(timers[i].cur)
    ]_vars

\* the first half of C7 alone
FailedPollKeepsState ==
  [][\A t \in PollSlots : LongPollFailed(t) => cursor' = cursor /\ entries' = entries]_vars

\* C8: once the component is unmounted no timer is pending, no long-poll is
\* sent and no delta is fetched.
C8_StoppedStaysStopped ==
  [][~mounted' =>
       /\ timers' = <<>>
       /\ \A t \in PollSlots : ~Issued(t) /\ ~DeltaFetched(t)
    ]_vars

\* the unmounted component sends no long-poll
NoPollAfterUnmount == [][~mounted' => \A t \in PollSlots : ~Issued(t)]_vars

\* C9: no two long-poll requests are in flight at once.
C9_OnePollAtATime == Cardinality({t \in PollSlots : polls[t].pc = "longpoll"}) <= 1

\* no two invocations write the snapshot and the cursor at once
OneWriterAtATime ==
  Cardinality({t \in PollSlots : polls[t].pc \in {"changes", "reload"}})
    + Cardinality({l \in LoadSlots : loads[l].pc = "listing"}) <= 1

(***************************************************************************)
(* uploadFile: the calls of a session.                                     *)
(***************************************************************************)
\* the bytes of the first n calls issued
RECURSIVE BytesOf(_, _)
BytesOf(calls, n) == IF n = 0 THEN 0 ELSE BytesOf(calls, n - 1) + calls[n].bytes

\* the calls the remote has acknowledged: all of them, but for the last one
\* when it made uploadFile throw
Acknowledged == IF upPc = "threw" THEN Len(upCalls) - 1 ELSE Len(upCalls)

\* C11: every append and finish call carries as its offset the number of
\* bytes of the calls of the session acknowledged before it; the offset the
\* upload holds is the number of bytes acknowledged so far while the loop
\* runs, and it never decreases.
C11_OffsetIsAcknowledgedBytes ==
  [][/\ \A i \in 1..Len(upCalls') :
          upCalls'[i].call \in {"append", "finish"}
            => upCalls'[i].cursor.offset = BytesOf(upCalls', i - 1)
     /\ upPc' = "loop" => offset' = BytesOf(upCalls', Len(upCalls'))
     /\ offset' >= offset
    ]_vars

\* C11 witness: a file of four chunks and one byte has gone up, its finish
\* sent at the offset of the four chunks before it
C11_Witness ==
  /\ upPc = "returned"
  /\ fileSize = 4 * CHUNK_SIZE + 1
  /\ CallNames(upCalls) = <<"start", "append", "append", "append", "finish">>
  /\ upCalls[5].cursor.offset = 4 * CHUNK_SIZE
  /\ Acknowledged = 5

\* the sizes that are k chunks exactly, and those that are n chunks and a byte
Multiples == {k \in 1..5 : k * CHUNK_SIZE \in FileSizes}
ChunksAndOne == {n \in 1..4 : n * CHUNK_SIZE + 1 \in FileSizes}
\* a session of k calls: a start, k - 2 appends, a finish
SessionNames(k) ==
  [i \in 1..k |-> IF i = 1 THEN "start" ELSE IF i = k THEN "finish" ELSE "append"]

\* C12 (amended): a payload of k * CHUNK_SIZE bytes above the threshold
\* (k >= 3) goes up in exactly k calls, one start, k - 2 appends and one
\* finish, each of CHUNK_SIZE bytes, with never an empty chunk; a payload of
\* one or two chunks is not above the threshold and goes up in one one-shot
\* call with no session.
C12_ChunkCallsOfMultiples ==
  \A k \in Multiples :
    fileSize = k * CHUNK_SIZE =>
      /\ \A i \in 1..Len(upCalls) : upCalls[i].bytes > 0
      /\ k >= 3 =>
           /\ Len(upCalls) <= k
           /\ upPc = "loop" => Len(upCalls) < k
           /\ \A i \in 1..Len(upCalls) :
                upCalls[i].bytes = CHUNK_SIZE /\ upCalls[i].call = SessionNames(k)[i]
           /\ upPc = "returned" => CallNames(upCalls) = SessionNames(k)
      /\ k < 3 /\ upPc # "start" =>
           CallNames(upCalls) = <<"upload">> /\ upCalls[1].bytes = fileSize

\* C12 witness: five chunks have gone up in five calls
C12_Witness ==
  /\ upPc = "returned"
  /\ fileSize = 5 * CHUNK_SIZE
  /\ CallNames(upCalls) = <<"start", "append", "append", "append", "finish">>
  /\ \A i \in 1..5 : upCalls[i].bytes = CHUNK_SIZE

\* C12 as stated: for every k >= 1 a payload of k chunks goes up in exactly
\* k session calls.
C12_KCallsForEveryK ==
  \A k \in Multiples :
    fileSize = k * CHUNK_SIZE /\ upPc = "returned" =>
      /\ Len(upCalls) = k
      /\ \A i \in 1..Len(upCalls) : upCalls[i].call \in {"start", "append", "finish"}

\* C13 (amended): a payload of CHUNK_SIZE + 1 bytes is below the threshold
\* and goes up in one one-shot call of CHUNK_SIZE + 1 bytes; a payload of n
\* chunks and one byte above the threshold goes up as a start of CHUNK_SIZE
\* bytes, n - 1 appends of CHUNK_SIZE bytes and a finish of 1 byte, and no
\* other call.
C13_ChunksAndOneByte ==
  \A n \in ChunksAndOne :
    fileSize = n * CHUNK_SIZE + 1 /\ upPc = "returned" =>
      IF n * CHUNK_SIZE + 1 <= SMALL_FILE_THRESHOLD
        THEN CallNames(upCalls) = <<"upload">> /\ upCalls[1].bytes = fileSize
        ELSE /\ CallNames(upCalls) = SessionNames(n + 1)
             /\ \A i \in 1..n : upCalls[i].bytes = CHUNK_SIZE
             /\ upCalls[n + 1].bytes = 1

\* C13 witness: three chunks and a byte went up, the finish carrying the byte
C13_Witness ==
  /\ upPc = "returned"
  /\ fileSize = 3 * CHUNK_SIZE + 1
  /\ CallNames(upCalls) = <<"start", "append", "append", "finish">>
  /\ upCalls[4].bytes = 1

\* C13 as stated: CHUNK_SIZE + 1 bytes go up as a start of CHUNK_SIZE bytes
\* and a finish of 1 byte.
C13_StartAndFinish ==
  fileSize = CHUNK_SIZE + 1 /\ upPc = "returned" =>
    /\ CallNames(upCalls) = <<"start", "finish">>
    /\ upCalls[1].bytes = CHUNK_SIZE
    /\ upCalls[2].bytes = 1

\* C14 (amended): a zero-byte source is not driven through the session
\* protocol: it goes up in exactly one one-shot call with an empty payload,
\* no start and no finish, and the upload returns the created entry.
C14_ZeroBytesOneShot ==
  fileSize = 0 =>
    /\ \A i \in 1..Len(upCalls) : upCalls[i].call = "upload" /\ upCalls[i].bytes = 0
    /\ Len(upCalls) <= 1
    /\ upPc = "returned" =>
         /\ Len(upCalls) = 1
         /\ upResult = [entry |-> <<upPath, "/", FileName>>, by |-> "upload"]

\* C14 witness: the zero-byte file has gone up
C14_Witness ==
  /\ fileSize = 0
  /\ upPc = "returned"
  /\ CallNames(upCalls) = <<"upload">>

\* C14 as stated: a zero-byte source produces one start with an empty chunk
\* and one finish.
C14_EmptyStartAndFinish ==
  fileSize = 0 /\ upPc = "returned" =>
    CallNames(upCalls) = <<"start", "finish">> /\ upCalls[1].bytes = 0

\* C15: when an append or a finish fails, the error uploadFile throws names
\* the session id and the committed offset.
C15_FailureIdentifiesSession ==
  upPc = "threw" /\ upResult.error \in {"append", "finish"} =>
    /\ {"sessionId", "committedOffset"} \subseteq DOMAIN upResult
    /\ upResult.sessionId = sessionId
    /\ upResult.committedOffset = offset

\* C16: every one-shot upload and every finish carries the path
\* destinationFolder/sourceName, mode add and autorename; a start or an
\* append carries no commit, so no call has an overwriting mode.
C16_CommitAddsWithAutorename ==
  \A i \in 1..Len(upCalls) :
    IF upCalls[i].call \in {"upload", "finish"}
      THEN upCalls[i].commit =
             [path |-> <<upPath, "/", FileName>>, mode |-> "add", autorename |-> TRUE]
      ELSE "commit" \notin DOMAIN upCalls[i]

\* C16 witness: a session into the folder /x has been finished
C16_Witness ==
  /\ upPc = "returned"
  /\ upPath = "/x"
  /\ upCalls[Len(upCalls)].call = "finish"
  /\ upCalls[Len(upCalls)].commit.path = <<"/x", "/", "f">>
  /\ upCalls[Len(upCalls)].commit.mode = "add"

(***************************************************************************)
(* The snapshot: order and keys.                                           *)
(***************************************************************************)
\* folders first
GroupOf(e) == IF e.tag = "folder" THEN 0 ELSE 1
\* the name as the order sees it: lower-cased, by its collation weight
NameWeight(e) == CollationKey(ToLowerCase(e.name))

\* C17: the snapshot holds its folders before its other entries and, within
\* each of the two groups, its entries by case-insensitive name.
C17_SnapshotOrdered ==
  \A i \in 1..Len(entries), j \in 1..Len(entries) :
    i < j =>
      /\ GroupOf(entries[i]) <= GroupOf(entries[j])
      /\ GroupOf(entries[i]) = GroupOf(entries[j])
           => NameWeight(entries[i]) <= NameWeight(entries[j])

\* C17 witness: a snapshot of a folder and two files of different names
C17_Witness ==
  /\ Len(entries) = 3
  /\ entries[1].tag = "folder" /\ entries[1].name = "a~"
  /\ entries[2].tag = "file" /\ entries[2].name = "A"
  /\ entries[3].tag = "file" /\ entries[3].name = "b"

\* C18: no two entries of the snapshot have the same path_lower.
C18_KeysUnique ==
  \A i \in 1..Len(entries), j \in 1..Len(entries) :
    i # j => entries[i].path_lower # entries[j].path_lower

\* the snapshot a merge returns has no key twice, whatever it started from
MergedKeysUnique ==
  merges >= 1 =>
    \A i \in 1..Len(mergedOnce), j \in 1..Len(mergedOnce) :
      i # j => mergedOnce[i].path_lower # mergedOnce[j].path_lower

(***************************************************************************)
(* listFolder: its requests, its failure and its end.                      *)
(***************************************************************************)
\* C19: a request of listFolder that fails makes listFolder throw that error
\* and nothing else, no entries and no cursor; the failed request is the last
\* one sent, and a listFolder that has thrown or returned sends no request.
C19_FailurePropagates ==
  [][/\ lfPc \in {"start", "continue"}
     /\ lfPc' = "threw" =>
          /\ lfResult' \in {[error |-> e] : e \in ListErrors}
          /\ pagesServed' = pagesServed
          /\ lfRequest' = NextRequest
    ]_vars

\* C19 witness: the third request failed after two pages with entries, and
\* listFolder threw the error alone
C19_Witness ==
  /\ lfPc = "threw"
  /\ Len(pagesServed) = 2
  /\ allEntries # <<>>
  /\ lfRequest.call = "filesListFolderContinue"
  /\ lfResult = [error |-> "other"]

\* C20: the first request is filesListFolder; a continue request is sent
\* exactly while the last response has has_more set and passes that
\* response's cursor; listFolder returns at the first response without
\* has_more, with that response's cursor.
C20_ContinuesWhileHasMore ==
  [][/\ lfPc = "start" => lfRequest' = [call |-> "filesListFolder"]
     /\ lfPc = "continue" =>
          /\ response.has_more
          /\ lfRequest' = [call |-> "filesListFolderContinue", cursor |-> response.cursor]
     /\ lfPc \notin {"returned", "threw"}
     /\ lfPc' # "threw" => (lfPc' = "continue" <=> response'.has_more)
     /\ lfPc' = "returned" =>
          /\ ~response'.has_more
          /\ lfResult'.cursor = response'.cursor
    ]_vars

\* C20 witness: three pages were fetched, the last continue passed cursor 2
\* and the listing returned the cursor 1 of the last response
C20_Witness ==
  /\ lfPc = "returned"
  /\ Len(pagesServed) = 3
  /\ lfRequest = [call |-> "filesListFolderContinue", cursor |-> 2]
  /\ lfResult.cursor = 1

\* the file browser has settled on a listed folder: it is mounted with a
\* client, the render in effect is the one of the present state, a cursor
\* is stored and no listing is in flight
Settled ==
  /\ mounted
  /\ dropboxClient # 0
  /\ rendered = Deps
  /\ cursor # NoCursor
  /\ \A l \in LoadSlots : loads[l].pc = "free"

\* C21: a change made on the remote while the file browser stays mounted on
\* a folder is eventually shown without any user action, also after answers
\* without changes.  Changes reach the snapshot only through a cycle of
\* startLongPolling, so while the browser is settled on a folder a cycle is
\* in flight or a timer that starts the next one is pending.
C21_FeedKeepsRunning == Settled => Chains(polls, timers) > 0

\* C22: runBatch returns one result a submitted job, and only when every job
\* has ended: the result of a job that succeeded is its entry, the result
\* of a job that failed is an error tagged to that job, and no result
\* exists before the return.
C22_OneResultPerJob ==
  /\ bPc = "running" => results = <<>>
  /\ bPc = "returned" =>
       /\ Len(results) = Len(jobs)
       /\ \A j \in JobIds :
            /\ jobPc[j] \in Terminal
            /\ jobPc[j] = "succeeded" => results[j] = [entry |-> j]
            /\ jobPc[j] = "failed" =>
                 /\ DOMAIN results[j] = {"error", "job"}
                 /\ results[j].job = j

\* C22 witness: five jobs were submitted, the third failed, the other four
\* succeeded, and runBatch returned five results
C22_Witness ==
  /\ bPc = "returned"
  /\ Len(jobs) = 5
  /\ Len(results) = 5
  /\ results[3] = [error |-> "failed", job |-> 3]
  /\ \A j \in JobIds \ {3} : results[j] = [entry |-> j]

\* the chunk operations in progress in all jobs
RECURSIVE OpsInProgress(_)
OpsInProgress(n) == IF n = 0 THEN 0 ELSE InProgress(n) + OpsInProgress(n - 1)

LoadEnded == \E l \in LoadSlots : loads[l].pc = "listing" /\ loads'[l].pc = "free"

\* C24: no failure of a remote call ends without a report.  For the listing
\* of loadCurrentFolder, whose caller is an effect or a handler that gets
\* nothing back: when listFolder fails, the error state is set or a toast
\* is shown.
C24_FailureIsReported ==
  [][LoadEnded /\ ~listed'.ok => error' \/ toast' \in Toasts]_vars

\* C25: after handleLogout and until the next handleLogin the tokens and the
\* client are null, isAuthenticated is false, and the team, namespace and
\* path state is reset, whatever request completes in between.
C25_LoggedOutStaysReset ==
  loggedOut =>
    /\ accessToken = 0
    /\ refreshToken = 0
    /\ dropboxClient = 0
    /\ ~isAuthenticated
    /\ ~isTeamAuth
    /\ teamMembers = {}
    /\ selectedMember = 0
    /\ rootNamespaceId = "null"
    /\ ~isViewingRoot
    /\ currentPath = ""

\* C26: one mounted LoginPage calls getTokensFromCode at most once, however
\* often the callback effect runs with a code in the URL, and whether the
\* exchange succeeds or fails; the call is the one that set the ref.
C26_ExchangesOnce ==
  /\ exchangeCalls <= 1
  /\ exchangeCalls = 1 => hasExchangedCode

\* C26 witness: the effect ran four times with a code in the URL, the one
\* exchange failed, and the page is still mounted
C26_Witness ==
  /\ lpMounted
  /\ code # 0
  /\ ~oauthError
  /\ effectRuns = 4
  /\ exchangeCalls = 1
  /\ exchange = 0
  /\ lpError = "exchange"

\* the step in which the route auth handles a request, up to its answer or
\* its await
AuthHandled ==
  /\ handled' # handled
  /\ handled'.route = "auth"
  /\ handled'.cause \notin {"exchanged", "exchange failed"}

\* the states authorize issued to session s
IssuedTo(s) == {i.state : i \in {j \in issued : j.session = s}}

\* the state of the request handled in this step is stored and not expired
StateStored == CacheGet(mycache, handled'.state, now)

\* the answer refuses: no exchange is started and no session changes
Refused(status) ==
  /\ handled'.status = status
  /\ pending' = pending
  /\ sessions' = sessions

\* C27 as stated: every request to auth with an unknown or expired state is
\* answered with 440.
C27_UnknownStateIs440 ==
  [][(AuthHandled /\ StateStored = 0) => handled'.status = "440"]_vars

\* C27 (amended): a token exchange is started, and a token stored in a
\* session, only for a state that authorize issued to that session; a
\* request without error_description is answered with 440 when its state is
\* unknown or expired and with 500 when the state belongs to another
\* session; a request with error_description is answered with 500; none of
\* the three starts an exchange or changes a session.
C27_TokenOnlyForOwnState ==
  [][/\ (AuthHandled /\ handled'.cause = "error_description") => Refused("500")
     /\ (AuthHandled /\ handled'.cause # "error_description" /\ StateStored = 0)
          => Refused("440")
     /\ (AuthHandled /\ handled'.cause # "error_description"
           /\ StateStored \notin {0, handled'.session})
          => Refused("500")
     /\ \A p \in pending' : p.state \in IssuedTo(p.session)
     /\ \A s \in Sessions :
          (sessions'[s].token # sessions[s].token)
            => (\E p \in pending : p.session = s /\ p.state \in IssuedTo(s))
    ]_vars

\* C27 witness: a request of one session with a state issued to the other
\* was answered with 500, and no session holds a token
C27_Witness ==
  /\ handled # Nothing
  /\ handled.route = "auth"
  /\ handled.cause = ""
  /\ handled.status = "500"
  /\ handled.state \in IssuedStates \ IssuedTo(handled.session)
  /\ pending = {}
  /\ \A s \in Sessions : sessions[s].token = 0

\* an expired state was answered with 440
C27_WitnessExpired ==
  /\ handled # Nothing
  /\ handled.route = "auth"
  /\ handled.status = "440"
  /\ handled.state \in IssuedTo(handled.session)
  /\ \E e \in mycache : e.state = handled.state /\ e.expires < now

\* the request handled in this step carries a state that authorize issued
\* to its session, minutes ago, and that is still stored
OwnStateOfAge(minutes) ==
  /\ AuthHandled
  /\ handled'.cause # "error_description"
  /\ \E i \in issued :
       /\ i.state = handled'.state
       /\ i.session = handled'.session
       /\ now - i.at = minutes
  /\ \E e \in mycache : e.state = handled'.state

Ages == {n * TickMinutes : n \in 0..(MaxNow \div TickMinutes)}

\* C28: a state is accepted by auth within 10 minutes of its creation and
\* rejected as an authentication timeout (440) at any later time.
C28_StateValidTenMinutes ==
  [][\A age \in Ages :
       OwnStateOfAge(age) => (handled'.status = "440" <=> age > STATE_VALID_MINUTES)
    ]_vars

\* what the code does instead: the state is accepted for the ttl of the cache
StateValidForTtl ==
  [][\A age \in Ages :
       OwnStateOfAge(age) => (handled'.status = "440" <=> age > TTL_MINUTES)
    ]_vars

\* the request handled last must lead to a new authorization: home or
\* fileAction (with a file_id) in a session without token, or a download
\* that failed with 401
NeedsAuthorization ==
  /\ handled # Nothing
  /\ \/ /\ handled.route \in {"home", "fileAction"}
        /\ ~handled.hadToken
        /\ handled.cause # "no file_id"
     \/ handled.cause = "401"

\* the answer redirects to the authorization URL with a state stored for
\* the session
RedirectedToAuthorize ==
  /\ handled.status = "302 authorize"
  /\ \E e \in mycache : e.state = handled.state /\ e.session = handled.session

\* C29: a request to home or fileAction in a session without a token, and a
\* download of prepareImages that fails with 401, are answered with the
\* redirect to the authorization URL, with a state stored for the session.
C29_RedirectsToAuthorize == NeedsAuthorization => RedirectedToAuthorize

\* the two routes alone do redirect a session without a token
TokenlessIsRedirected ==
  (NeedsAuthorization /\ handled.cause # "401") => RedirectedToAuthorize

\* the folder of a path (up to its last "/") and its file name
FolderOf(p) == SubSeq(p, 1, MaxOf(IndicesOf(p, "/")))
NameOf(p) == SubSeq(p, MaxOf(IndicesOf(p, "/")) + 1, Len(p))

\* the name with the note put once, right before the extension
NoteBeforeExtension(name) ==
  LET dot == MaxOf(IndicesOf(name, "."))
  IN SubSeq(name, 1, dot - 1) \o <<NOTE>> \o SubSeq(name, dot, Len(name))

\* C30: the flipped image is uploaded into the folder of the original, under
\* the original name with the note once, right before the file extension,
\* for every path of a file with an extension.
C30_NoteOnceBeforeExtension ==
  (svPc # "start" /\ IndicesOf(NameOf(path_lower), ".") # {}) =>
    dbx_save_path = FolderOf(path_lower) \o NoteBeforeExtension(NameOf(path_lower))

\* the statement holds of the paths with one dot in all, that of the
\* extension
NoteOnceWhenOneDot ==
  (/\ svPc # "start"
   /\ Cardinality(IndicesOf(path_lower, ".")) = 1
   /\ IndicesOf(NameOf(path_lower), ".") # {}) =>
    dbx_save_path = FolderOf(path_lower) \o NoteBeforeExtension(NameOf(path_lower))

(***************************************************************************)
(* uploadFile: the protocol of a session, its chunks and its failures.     *)
(***************************************************************************)
\* the calls that commit an entry
Committing == {"upload", "finish"}

\* C31: a chunked upload that has returned issued one start first, then
\* appends only, then one finish as its last call, and returns the entry of
\* that finish; the loop never runs out of bytes before a finish, so that
\* uploadFile has never returned without a committing call as its last call.
C31_SessionProtocol ==
  /\ upPc = "loop" => offset < fileSize
  /\ upPc = "returned" =>
       /\ Len(upCalls) >= 1
       /\ upCalls[Len(upCalls)].call \in Committing
       /\ \A i \in 1..(Len(upCalls) - 1) : upCalls[i].call \notin Committing
       /\ upResult.by = upCalls[Len(upCalls)].call
       /\ upResult.entry = upCalls[Len(upCalls)].commit.path
       /\ Chunked(fileSize) =>
            /\ Len(upCalls) >= 2
            /\ upCalls[1].call = "start"
            /\ upCalls[Len(upCalls)].call = "finish"
            /\ \A i \in 2..(Len(upCalls) - 1) : upCalls[i].call = "append"

\* C31 witness: three chunks went up as a start, an append and a finish,
\* and the entry of the finish came back
C31_Witness ==
  /\ upPc = "returned"
  /\ fileSize = 3 * CHUNK_SIZE
  /\ CallNames(upCalls) = <<"start", "append", "finish">>
  /\ upResult = [entry |-> upCalls[3].commit.path, by |-> "finish"]

\* the byte range [from, to) of the i-th call of a session
RangeFrom(calls, i) == IF calls[i].call = "start" THEN 0 ELSE calls[i].cursor.offset
RangeTo(calls, i) == RangeFrom(calls, i) + calls[i].bytes

\* C32: the chunks of a session are consecutive ranges from byte 0, each of
\* CHUNK_SIZE bytes but for the chunk of the finish, which has between 1 and
\* CHUNK_SIZE bytes; when the upload has returned they end at the length of
\* the source.
C32_ChunksCoverSourceOnce ==
  Chunked(fileSize) =>
    /\ \A i \in 1..Len(upCalls) :
         /\ RangeFrom(upCalls, i) = (IF i = 1 THEN 0 ELSE RangeTo(upCalls, i - 1))
         /\ RangeTo(upCalls, i) <= fileSize
         /\ IF upCalls[i].call = "finish"
              THEN upCalls[i].bytes >= 1 /\ upCalls[i].bytes <= CHUNK_SIZE
              ELSE upCalls[i].bytes = CHUNK_SIZE
    /\ upPc = "returned" =>
         /\ RangeTo(upCalls, Len(upCalls)) = fileSize
         /\ BytesOf(upCalls, Len(upCalls)) = fileSize

\* C32 witness: a file one byte short of three chunks went up in two whole
\* chunks and one chunk short of a byte
C32_Witness ==
  /\ upPc = "returned"
  /\ fileSize = 3 * CHUNK_SIZE - 1
  /\ Len(upCalls) = 3
  /\ upCalls[1].bytes = CHUNK_SIZE
  /\ upCalls[2].bytes = CHUNK_SIZE
  /\ upCalls[3].bytes = CHUNK_SIZE - 1
  /\ upCalls[3].cursor.offset = 2 * CHUNK_SIZE

\* the step issues a call
CallIssued == Len(upCalls') = Len(upCalls) + 1

\* the call the step issued was answered: the session began, the offset
\* went on, or the upload returned
CallAnswered ==
  \/ upPc = "start" /\ upPc' = "loop"
  \/ upPc = "loop" /\ upPc' = "loop" /\ offset' > offset
  \/ upPc' = "returned"

\* C33: a call of an upload is either answered or makes uploadFile throw the
\* error of that call; once it has thrown, the upload issues no call again.
C33_FailureEndsUpload ==
  [][/\ CallIssued =>
          \/ CallAnswered
          \/ /\ upPc' = "threw"
             /\ upResult' = [error |-> upCalls'[Len(upCalls')].call]
     /\ upPc = "threw" => UNCHANGED <<upCalls, upPc, upResult>>
     /\ upCalls' # upCalls => CallIssued /\ SubSeq(upCalls', 1, Len(upCalls)) = upCalls
    ]_vars

\* C33 witness: the second append of a session failed and the upload threw
\* its error, the failed call the last one issued
C33_Witness ==
  /\ upPc = "threw"
  /\ fileSize = 5 * CHUNK_SIZE
  /\ CallNames(upCalls) = <<"start", "append", "append">>
  /\ upResult = [error |-> "append"]

(***************************************************************************)
(* The file browser: a delta is applied whole, and in the order served.    *)
(***************************************************************************)
\* the entries of snapshot s under key k
EntriesAt(s, k) == {s[i] : i \in KeyIndex(s, k)}

\* snapshot new is snapshot old with the batch recs applied: a key of the
\* batch holds its last record, or nothing when that is a tombstone, and
\* every other key holds what it held
AppliedInOrder(old, recs, new) ==
  \A k \in Keys(old) \cup Keys(recs) \cup Keys(new) :
    IF k \in Keys(recs)
      THEN IF LastFor(recs, k).tag = "deleted"
             THEN KeyIndex(new, k) = {}
             ELSE /\ EntriesAt(new, k) = {LastFor(recs, k)}
                  /\ Cardinality(KeyIndex(new, k)) = 1
      ELSE EntriesAt(new, k) = EntriesAt(old, k)

\* C34: while the pages of a delta are fetched, and when a page request
\* fails, the snapshot stays as it is; the update that follows the last page
\* applies every record the remote returned for the delta, in the order
\* returned, so that the last record of a key decides what the key holds.
C34_DeltaAppliedWhole ==
  [][\A t \in PollSlots :
       /\ PageFetched(t) \/ DeltaFailed(t) => entries' = entries
       /\ DeltaApplied(t) /\ mounted =>
            AppliedInOrder(entries, Remaining(polls[t].cur, 0), entries')
    ]_vars

\* C34 witness: the root folder was listed with "a"; "a" was then deleted and
\* written again as "A"; the first page of the delta, the tombstone, has
\* been fetched and the second is awaited, and the snapshot still holds "a"
C34_Witness ==
  \E t \in PollSlots :
    /\ mounted
    /\ remoteLog = <<MkEntry("deleted", "a"), MkEntry("file", "A")>>
    /\ polls[t].pc = "changes"
    /\ polls[t].cur = cursor
    /\ polls[t].all = <<MkEntry("deleted", "a")>>
    /\ entries = <<MkEntry("file", "a")>>

\* C35: once a listing or a delta has set them, the snapshot holds the
\* non-deleted entries the folder of the cursor had at the cursor: what a
\* listing taken at that cursor returns.
C35_SnapshotIsRemoteAtCursor ==
  cursor # NoCursor =>
    AsMap(entries) = LiveAt(CursorPath(cursor), CursorVersion(cursor))

\* a delta applied by a cycle whose cursor is still the stored one keeps the
\* snapshot equal to the remote at the cursor
CurrentCycleKeepsSync ==
  [][\A t \in PollSlots :
       DeltaApplied(t) /\ polls[t].cur = cursor /\ C35_SnapshotIsRemoteAtCursor
         => C35_SnapshotIsRemoteAtCursor'
    ]_vars

\* C36: a cycle that ends when the stored cursor is no longer the one it
\* started from, whether it applies its delta or re-lists after a failure,
\* leaves the snapshot and the cursor as they are.
C36_SupersededCycleWritesNothing ==
  [][\A t \in PollSlots :
       (DeltaApplied(t) \/ FellBack(t)) /\ polls[t].cur # cursor
         => entries' = entries /\ cursor' = cursor
    ]_vars

\* the cursor stored is one of the folder displayed, once the render has
\* caught up with the path and no listing is awaited
CursorOfFolderDisplayed ==
  /\ mounted /\ rendered = Deps /\ cursor # NoCursor
  /\ \A l \in LoadSlots : loads[l].pc = "free"
  => CursorPath(cursor) = currentPath

\* the last step answered a getCurrentAccount request with a rejection
AccountFailed ==
  /\ answered # Nothing
  /\ answered.req.kind \in {"member", "user"}
  /\ answered.status # 200

\* C37: when getCurrentAccount is rejected with status 401 the provider is
\* logged out, all authentication state cleared and no client created; when
\* it is rejected otherwise the provider has a client of the request's token
\* without path root and the root namespace id is cleared.
C37_AccountFailureHandled ==
  AccountFailed =>
    IF answered.status = 401
      THEN /\ accessToken = 0 /\ refreshToken = 0 /\ ~isAuthenticated
           /\ dropboxClient = 0
           /\ ~isTeamAuth /\ teamMembers = {} /\ selectedMember = 0
           /\ rootNamespaceId = "null" /\ ~isViewingRoot
           /\ currentPath = "" /\ currentAccount = 0
      ELSE /\ dropboxClient = answered.req.tok
           /\ pathRoot = "null"
           /\ rootNamespaceId = ""

C37_Witness ==
  /\ AccountFailed
  /\ answered.req.kind = "member"
  /\ answered.req.root
  /\ answered.status = 403
  /\ accessToken # 0

\* C38: the loading flag of the provider becomes false, whatever localStorage
\* held at construction and however the requests of the effect are answered.
C38_LoadingEnds == <>(loading = FALSE)

C38_Witness ==
  /\ ~loading
  /\ answered # Nothing
  /\ answered.req.kind = "member"
  /\ answered.req.member = 2
  /\ teamMembers = Members

\* C39: every request that auth, home or fileAction, with the prepareImages
\* they call, has finished handling was sent a response: no handler ends
\* without a page, a redirect or an error status.
C39_EveryRequestAnswered ==
  handled # Nothing => handled.status # "none"

====
